---- MODULE Spec2Model ----
(***************************************************************************)
(* Model of the command engine of the Cursor MCP Figma plugin              *)
(* (src/src/cursor_mcp_plugin/code.js): the 'execute-command' boundary,    *)
(* handleCommand, the chunked batch commands and their progress events.    *)
(*                                                                         *)
(* One behaviour is the life of one inbound 'execute-command' message.     *)
(* An action is one run-to-suspension step of the single-threaded event    *)
(* loop: the code between two awaits.  The in-flight items of one chunk    *)
(* (chunk.map(async ...)) are separate continuations that the event loop   *)
(* resumes in any order.                                                   *)
(***************************************************************************)
EXTENDS Integers, Sequences, FiniteSets, TLC

(***************************************************************************)
(* Bounds of the model                                                     *)
(***************************************************************************)
MaxItems == 6          \* longest item list given to a batch command
MaxPattern == 2        \* item lists are the lists of period <= MaxPattern
MaxChunkSize == 3      \* largest explicit chunkSize parameter of scan_text_nodes
MaxEvents == 16        \* the event log keeps the first MaxEvents progress events
MaxIter == 7           \* loop counters of scan_text_nodes saturate here
MaxText == 3           \* longest text of a node given to the text functions
MaxNew == 2            \* longest new text that differs from the node's own

(***************************************************************************)
(* Program constants                                                       *)
(***************************************************************************)
CHUNK_SIZE == 5
DefaultChunkSize == 10

Undef == "undefined"

(***************************************************************************)
(* The document tree the host owns (figma.getNodeByIdAsync, node.type,     *)
(* node.children, node.name).                                              *)
(***************************************************************************)
Nodes == {"root", "t1", "g1", "t2", "r1"}
Ghost == "ghost"       \* an id that resolves to no node
TextNodes == {"t1", "t2"}

NodeType(n) ==
  CASE n = "root" -> "FRAME"
    [] n = "g1" -> "GROUP"
    [] n \in TextNodes -> "TEXT"
    [] OTHER -> "RECTANGLE"

NodeChildren(n) ==
  CASE n = "root" -> <<"t1", "g1">>
    [] n = "g1" -> <<"t2", "r1">>
    [] OTHER -> <<>>

\* node.name; r1 carries the empty name
NodeName(n) == IF n = "r1" THEN "" ELSE n

HasChildren(n) == NodeType(n) \in {"FRAME", "GROUP"}

\* "annotations" in node
SupportsAnnotations(n) == NodeType(n) # "GROUP"

(***************************************************************************)
(* Sequences helpers                                                       *)
(***************************************************************************)
SeqsUpTo(E, n) == UNION {[1..k -> E] : k \in 0..n}

Min(a, b) == IF a <= b THEN a ELSE b
Max(a, b) == IF a >= b THEN a ELSE b

\* Array.prototype.slice(from, to) on a 1-based sequence: a negative index
\* counts from the end, and both indices are clamped to 0..length
Slice(s, from, to) ==
  LET clamp(x) == IF x < 0 THEN Max(Len(s) + x, 0) ELSE Min(x, Len(s))
  IN IF clamp(from) >= clamp(to) THEN <<>> ELSE SubSeq(s, clamp(from) + 1, clamp(to))

\* the lists of length <= n obtained by repeating a pattern over E
Periodic(E, n) ==
  {[k \in 1..m |-> p[((k - 1) % Len(p)) + 1]] :
      p \in SeqsUpTo(E, MaxPattern) \ {<<>>}, m \in 0..n}

(***************************************************************************)
(* Optional values: <<>> is an absent (undefined / null) value, <<v>> a    *)
(* present one.                                                            *)
(***************************************************************************)
None == <<>>
Some(v) == <<v>>
IsSome(o) == o # <<>>
Val(o) == o[1]

\* JavaScript numbers that need not be finite integers (Math.ceil(n / c))
Fin(n) == <<"fin", n>>
Infinite == <<"inf", 0>>
NaN == <<"nan", 0>>

(***************************************************************************)
(* State                                                                   *)
(***************************************************************************)
VARIABLES
  msg,            \* the inbound 'execute-command' message
  pc,             \* where the command's handler is suspended
  outbox,         \* 'command-result' / 'command-error' messages posted to the UI
  events,         \* 'command_progress' messages posted to the UI, in order
  alive,          \* ids that resolve to a node of the document
  fills,          \* node.fills of the text nodes
  chars,          \* node.characters of the text nodes
  annotated,      \* nodes whose annotations were overwritten
  hidden,         \* nodes whose visible flag is false
  unloadable,     \* text nodes whose font the host fails to load
  commandId,      \* the commandId of the running batch command
  chunks,         \* the chunks of a batch command
  chunkIndex,     \* index of the current chunk (0-based, as in the code)
  items,          \* the in-flight continuations of the current chunk
  results,        \* results[] of a batch command
  successCount,
  failureCount,
  scan,           \* the locals of scanTextNodes
  annIndex,       \* the loop index i of setMultipleAnnotations
  delays,         \* the number of `await delay(...)` between chunks begun so far
  textNode,       \* the text node handed to setCharacters and its helpers
  call,           \* the function applied to textNode, its arguments and outcome
  frames,         \* the frames the features plugin created, with their children
  selection,      \* figma.currentPage.selection
  received        \* the number of messages the features plugin was sent

vars == <<msg, pc, outbox, events, alive, fills, chars, annotated, hidden,
          unloadable, commandId, chunks, chunkIndex, items, results,
          successCount, failureCount, scan, annIndex, delays, textNode, call,
          frames, selection, received>>

\* the state the features plugin works on
featureVars == <<frames, selection, received>>

\* the state of the text rewriting functions, which no command handler of
\* the dispatch touches with a smart strategy
pureVars == <<textNode, call>>

treeVars == <<alive, fills, chars, annotated>>
batchVars == <<commandId, chunks, chunkIndex, items, results, successCount, failureCount>>

MsgId == "m1"
GeneratedId == "cmd_generated"   \* generateCommandId()

(***************************************************************************)
(* ProgressReporter: sendProgressUpdate                                    *)
(***************************************************************************)
NoPayload == None

\* a payload object, by the fields the reporter looks at, and its data
Payload(cc, tc, cs, data) ==
  [currentChunk |-> cc, totalChunks |-> tc, chunkSize |-> cs, data |-> data]

\* a reporter that lifts the chunk fields when the payload defines either
sendProgressUpdateEitherField(cid, commandType, status, progress, totalItems, processedItems, payload) ==
  LET lift == IsSome(payload) /\ (IsSome(Val(payload).currentChunk)
                                   \/ IsSome(Val(payload).totalChunks))
  IN [type |-> "command_progress",
      commandId |-> cid,
      commandType |-> commandType,
      status |-> status,
      progress |-> progress,
      totalItems |-> totalItems,
      processedItems |-> processedItems,
      currentChunk |-> IF lift THEN Val(payload).currentChunk ELSE None,
      totalChunks |-> IF lift THEN Val(payload).totalChunks ELSE None,
      chunkSize |-> IF lift THEN Val(payload).chunkSize ELSE None,
      payload |-> payload]

sendProgressUpdate(cid, commandType, status, progress, totalItems, processedItems, payload) ==
  LET lift == IsSome(payload) /\ IsSome(Val(payload).currentChunk)
                              /\ IsSome(Val(payload).totalChunks)
  IN [type |-> "command_progress",
      commandId |-> cid,
      commandType |-> commandType,
      status |-> status,
      progress |-> progress,
      totalItems |-> totalItems,
      processedItems |-> processedItems,
      currentChunk |-> IF lift THEN Val(payload).currentChunk ELSE None,
      totalChunks |-> IF lift THEN Val(payload).totalChunks ELSE None,
      chunkSize |-> IF lift THEN Val(payload).chunkSize ELSE None,
      payload |-> payload]

\* figma.ui.postMessage(update): the log keeps the first MaxEvents events
Post(log, es) ==
  LET room == MaxEvents - Len(log)
  IN IF room <= 0 THEN log
     ELSE log \o SubSeq(es, 1, Min(Len(es), room))

(***************************************************************************)
(* The 'execute-command' boundary: figma.ui.onmessage                      *)
(***************************************************************************)
\* error.message || "Error executing command"
ErrorField(message) == IF message = <<"">> THEN <<"Error executing command">> ELSE message

CommandResult(result) == [type |-> "command-result", id |-> msg.id, result |-> result, error |-> None]
CommandError(message) == [type |-> "command-error", id |-> msg.id, result |-> None, error |-> ErrorField(message)]

\* the handler returned `result`: the try block posts it
Returns(result) ==
  /\ outbox' = Append(outbox, CommandResult(Some(result)))
  /\ pc' = "done"

\* a catch block that posts the error and then falls through to the result
ThrowsAlsoReturning(message) ==
  /\ outbox' = outbox \o <<CommandError(message), CommandResult(None)>>
  /\ pc' = "done"

\* the handler threw an Error with `message`: the catch block posts it
Throws(message) ==
  /\ outbox' = Append(outbox, CommandError(message))
  /\ pc' = "done"

(***************************************************************************)
(* Chunking: for (i = 0; i < list.length; i += CHUNK_SIZE)                 *)
(*             chunks.push(list.slice(i, i + CHUNK_SIZE))                  *)
(***************************************************************************)
\* the loop with its step off by one: i += CHUNK_SIZE + 1
RECURSIVE ChunksFromSkipping(_, _, _)
ChunksFromSkipping(list, from, size) ==
  IF from < Len(list)
  THEN <<Slice(list, from, from + size)>> \o ChunksFromSkipping(list, from + size + 1, size)
  ELSE <<>>

RECURSIVE ChunksFrom(_, _, _)
ChunksFrom(list, from, size) ==
  IF from < Len(list)
  THEN <<Slice(list, from, from + size)>> \o ChunksFrom(list, from + size, size)
  ELSE <<>>

SplitIntoChunks(list) == ChunksFrom(list, 0, CHUNK_SIZE)

\* Math.round(5 + (k / n) * 90) for integers k >= 0, n > 0: floor(x + 1/2)
ChunkProgress(k, n) == (2 * (5 * n + 90 * k) + n) \div (2 * n)

(***************************************************************************)
(* The removed subtree of node.remove()                                    *)
(***************************************************************************)
RECURSIVE Subtree(_)
Subtree(n) ==
  {n} \cup UNION {Subtree(NodeChildren(n)[k]) : k \in 1..Len(NodeChildren(n))}

(***************************************************************************)
(* Item results                                                            *)
(***************************************************************************)
Ok(id) == [success |-> TRUE, nodeId |-> id, error |-> None]
Failed(id, error) == [success |-> FALSE, nodeId |-> id, error |-> error]

\* the continuation of one item of chunk.map(async ...)
Item(ipc, entry, found, saved, result) ==
  [pc |-> ipc, entry |-> entry, found |-> found, saved |-> saved, result |-> result]

Settled(it) == it.pc \in {"resolved", "rejected"}
Resolve(it, result) == [it EXCEPT !.pc = "resolved", !.result = Some(result)]

\* chunkResults.forEach: tally and append, in the order of the promises
Tally(rs, p(_)) == Cardinality({k \in 1..Len(rs) : p(rs[k])})
IsSuccess(r) == r.success
IsFailure(r) == ~r.success
\* the chunk results with the failures filtered out
ChunkResultsDroppingFailures(its) ==
  LET kept == SelectSeq(its, LAMBDA it : it.pc = "resolved" /\ Val(it.result).success)
  IN [k \in 1..Len(kept) |-> Val(kept[k].result)]

\* the chunk results in the reverse of the order of the promises
ChunkResultsReversed(its) ==
  LET resolved == SelectSeq(its, LAMBDA it : it.pc = "resolved")
  IN [k \in 1..Len(resolved) |-> Val(resolved[Len(resolved) + 1 - k].result)]

\* the values of the promises of the chunk that are resolved, in the order
\* of the promises
ChunkResults(its) ==
  LET resolved == SelectSeq(its, LAMBDA it : it.pc = "resolved")
  IN [k \in 1..Len(resolved) |-> Val(resolved[k].result)]

\* a join that resolves with the first promise to resolve (Promise.race)
FirstResolved(its) == \E k \in 1..Len(its) : its[k].pc = "resolved"

\* Promise.all(chunkPromises) resolves once every promise is resolved
AllResolved(its) == \A k \in 1..Len(its) : its[k].pc = "resolved"
\* Promise.all(chunkPromises) rejects once one promise is rejected
SomeRejected(its) == \E k \in 1..Len(its) : its[k].pc = "rejected"

(***************************************************************************)
(* Inbound messages                                                        *)
(***************************************************************************)
Params(nodeId, cid, list, useChunking, chunkSize) ==
  [nodeId |-> nodeId, commandId |-> cid, list |-> list,
   useChunking |-> useChunking, chunkSize |-> chunkSize]

NoParams == Params(Undef, Undef, None, TRUE, None)

\* the two plugins that serve 'execute-command' messages
MainPlugin == "cursor_mcp_plugin"
FeaturesPlugin == "figma-plugin-features"

ExecuteCommand(command, hasParams, params) ==
  [type |-> "execute-command", id |-> MsgId, command |-> command,
   hasParams |-> hasParams, params |-> params, plugin |-> MainPlugin]

\* what delete_multiple_nodes is asked to delete
DeleteIds == {"t1", "g1", "t2", Ghost}
DeleteMessages ==
  {ExecuteCommand("delete_multiple_nodes", FALSE, NoParams)}
  \cup {ExecuteCommand("delete_multiple_nodes", TRUE, Params(Undef, Undef, l, TRUE, None)) :
          l \in {None} \cup {Some(ids) : ids \in Periodic(DeleteIds, MaxItems)}}

\* the entries of the text array of set_multiple_text_contents
Replacement(nodeId, text) == [isNull |-> FALSE, nodeId |-> nodeId, text |-> text]
NullEntry == [isNull |-> TRUE, nodeId |-> Undef, text |-> Undef]
Replacements ==
  {Replacement("t1", "new"), Replacement("t2", "new"), Replacement("g1", "new"),
   Replacement(Ghost, "new"), Replacement(Undef, "new"), Replacement("t1", Undef),
   NullEntry}
TextMessages ==
  {ExecuteCommand("set_multiple_text_contents", FALSE, NoParams)}
  \cup {ExecuteCommand("set_multiple_text_contents", TRUE, Params(n, c, l, TRUE, None)) :
          n \in {"root"}, c \in {Undef},
          l \in {Some(t) : t \in Periodic(Replacements, MaxItems)}}
  \cup {ExecuteCommand("set_multiple_text_contents", TRUE, Params(n, c, l, TRUE, None)) :
          n \in {"root", Undef}, c \in {Undef, "c1"},
          l \in {None, Some(<<Replacement("t1", "new")>>)}}

(***************************************************************************)
(* The batch engine shared by setMultipleTextContents and                  *)
(* deleteMultipleNodes                                                     *)
(***************************************************************************)
BatchSummary ==
  [success |-> successCount > 0,
   succeeded |-> successCount,
   failed |-> failureCount,
   total |-> Len(Val(msg.params.list)),
   results |-> results,
   completedInChunks |-> Len(chunks),
   commandId |-> commandId]

IsBatch == msg.command \in {"set_multiple_text_contents", "delete_multiple_nodes"}

\* "started" and the planning-phase event, after the list has been chunked
StartedEvents(cid, list) ==
  <<sendProgressUpdate(cid, msg.command, "started", 0, Len(list), 0,
       Some(Payload(None, None, None, None))),
    sendProgressUpdate(cid, msg.command, "in_progress", 5, Len(list), 0,
       Some(Payload(None, None, Some(CHUNK_SIZE), None)))>>

ErrorEvent(cid, message) ==
  sendProgressUpdate(cid, msg.command, "error", 0, 0, 0,
     Some(Payload(None, None, None, Some(message))))

\* async function deleteMultipleNodes(params), up to its first await
DeleteReceive ==
  /\ pc = "inbox"
  /\ msg.command = "delete_multiple_nodes"
  /\ LET nodeIds == IF msg.hasParams THEN msg.params.list ELSE None
     IN IF ~IsSome(nodeIds) \/ Val(nodeIds) = <<>>
        THEN /\ events' = Post(events, <<ErrorEvent(GeneratedId, <<"Missing or invalid nodeIds parameter">>)>>)
             /\ Throws(<<"Missing or invalid nodeIds parameter">>)
             /\ UNCHANGED <<chunks, commandId>>
        ELSE /\ events' = Post(events, StartedEvents(GeneratedId, Val(nodeIds)))
             /\ chunks' = SplitIntoChunks(Val(nodeIds))
             /\ commandId' = GeneratedId
             /\ pc' = "chunk_head"
             /\ UNCHANGED outbox
  /\ UNCHANGED <<msg, annIndex, treeVars, hidden, unloadable, chunkIndex, items, results,
                 successCount, failureCount, scan>>
  /\ UNCHANGED <<delays, pureVars, featureVars>>

\* async function setMultipleTextContents(params), up to its first await
TextReceive ==
  /\ pc = "inbox"
  /\ msg.command = "set_multiple_text_contents"
  /\ IF ~msg.hasParams
     THEN \* params.commandId of undefined
          /\ Throws(<<"TypeError">>)
          /\ UNCHANGED <<events, chunks, commandId>>
     ELSE LET cid == IF msg.params.commandId # Undef THEN msg.params.commandId ELSE GeneratedId
              text == msg.params.list
          IN IF msg.params.nodeId = Undef \/ ~IsSome(text)
             THEN /\ events' = Post(events, <<ErrorEvent(cid, <<"Missing required parameters: nodeId and text array">>)>>)
                  /\ Throws(<<"Missing required parameters: nodeId and text array">>)
                  /\ UNCHANGED <<chunks, commandId>>
             ELSE /\ events' = Post(events, StartedEvents(cid, Val(text)))
                  /\ chunks' = SplitIntoChunks(Val(text))
                  /\ commandId' = cid
                  /\ pc' = "chunk_head"
                  /\ UNCHANGED outbox
  /\ UNCHANGED <<msg, annIndex, treeVars, hidden, unloadable, chunkIndex, items, results,
                 successCount, failureCount, scan>>
  /\ UNCHANGED <<delays, pureVars, featureVars>>

\* the synchronous head of the async callback given to chunk.map
StartItem(entry) ==
  IF msg.command = "delete_multiple_nodes"
  THEN Item("lookup", entry, entry \in alive, None, None)
  ELSE IF entry.isNull
       THEN \* replacement.nodeId of null, outside the try block
            Item("rejected", entry, FALSE, None, None)
       ELSE IF entry.nodeId = Undef \/ entry.text = Undef
            THEN Item("resolved", entry, FALSE, None,
                      Some(Failed(IF entry.nodeId = Undef THEN "unknown" ELSE entry.nodeId,
                                  <<"Missing nodeId or text in replacement entry">>)))
            ELSE Item("lookup", entry, entry.nodeId \in alive, None, None)

\* the head of `for (chunkIndex ...)`: the event before the chunk and
\* chunk.map; after the last chunk, the "completed" event and the return
ChunkHead ==
  /\ pc = "chunk_head"
  /\ IF chunkIndex < Len(chunks)
     THEN LET chunk == chunks[chunkIndex + 1]
          IN /\ events' = Post(events,
                   <<sendProgressUpdate(commandId, msg.command, "in_progress",
                        ChunkProgress(chunkIndex, Len(chunks)),
                        Len(Val(msg.params.list)), successCount + failureCount,
                        Some(Payload(Some(chunkIndex + 1), Some(Fin(Len(chunks))), None, None)))>>)
             /\ items' = [k \in 1..Len(chunk) |-> StartItem(chunk[k])]
             /\ pc' = "chunk_wait"
             /\ UNCHANGED outbox
     ELSE /\ events' = Post(events,
                   <<sendProgressUpdate(commandId, msg.command, "completed", 100,
                        Len(Val(msg.params.list)), successCount + failureCount,
                        Some(Payload(None, None, None, Some(results))))>>)
          /\ Returns(BatchSummary)
          /\ UNCHANGED items
  /\ UNCHANGED <<msg, annIndex, treeVars, hidden, unloadable, commandId, chunks, chunkIndex,
                 results, successCount, failureCount, scan>>
  /\ UNCHANGED <<delays, pureVars, featureVars>>

\* a pause after every chunk, the last one included
PauseAfterEveryChunk(index, total) == TRUE

\* if (chunkIndex < chunks.length - 1) await delay(1000)
AnotherChunkFollows(index, total) == index < total - 1

\* await Promise.all(chunkPromises) resolved: tally, the event after the
\* chunk, and the pause when another chunk follows
ChunkJoin ==
  /\ pc = "chunk_wait"
  /\ AllResolved(items)
  /\ LET chunkResults == ChunkResults(items)
         sc == successCount + Tally(chunkResults, IsSuccess)
         fc == failureCount + Tally(chunkResults, IsFailure)
     IN /\ successCount' = sc
        /\ failureCount' = fc
        /\ results' = results \o chunkResults
        /\ events' = Post(events,
              <<sendProgressUpdate(commandId, msg.command, "in_progress",
                   ChunkProgress(chunkIndex + 1, Len(chunks)),
                   Len(Val(msg.params.list)), sc + fc,
                   Some(Payload(Some(chunkIndex + 1), Some(Fin(Len(chunks))), None,
                                Some(chunkResults))))>>)
  /\ IF AnotherChunkFollows(chunkIndex, Len(chunks))
     THEN pc' = "chunk_pause" /\ delays' = delays + 1 /\ UNCHANGED chunkIndex
     ELSE pc' = "chunk_head" /\ chunkIndex' = chunkIndex + 1 /\ UNCHANGED delays
  /\ UNCHANGED <<msg, annIndex, outbox, treeVars, hidden, unloadable, commandId, chunks, items, scan>>
  /\ UNCHANGED <<pureVars, featureVars>>

\* await delay(1000) between two chunks elapsed
ChunkPause ==
  /\ pc = "chunk_pause"
  /\ chunkIndex' = chunkIndex + 1
  /\ pc' = "chunk_head"
  /\ UNCHANGED <<msg, annIndex, outbox, events, treeVars, hidden, unloadable, commandId, chunks,
                 items, results, successCount, failureCount, scan>>
  /\ UNCHANGED <<delays, pureVars, featureVars>>

\* await Promise.all(chunkPromises) rejected: the exception leaves the
\* handler; the other continuations of the chunk stay in flight
ChunkReject ==
  /\ pc = "chunk_wait"
  /\ SomeRejected(items)
  /\ Throws(<<"TypeError">>)
  /\ UNCHANGED <<msg, annIndex, events, treeVars, hidden, unloadable, batchVars, scan>>
  /\ UNCHANGED <<delays, pureVars, featureVars>>

(***************************************************************************)
(* The continuations of deleteMultipleNodes' chunk.map callback            *)
(***************************************************************************)
\* what a lookup issued while the node existed gives once the node is gone:
\* null, a handle whose remove() throws, or a handle whose remove() does nothing
StaleOutcomes(id) ==
  {Failed(id, <<"Node not found", id>>), Failed(id, <<"host error">>), Ok(id)}

\* a callback that reports success without testing the handle it was given
DeleteLookupUnchecked(k) ==
  /\ msg.command = "delete_multiple_nodes"
  /\ k \in 1..Len(items)
  /\ items[k].pc = "lookup"
  /\ alive' = alive \ Subtree(items[k].entry)
  /\ items' = [items EXCEPT ![k] = Resolve(@, Ok(items[k].entry))]
  /\ UNCHANGED <<msg, annIndex, pc, outbox, events, fills, chars, annotated, hidden, unloadable,
                 commandId, chunks, chunkIndex, results, successCount, failureCount, scan>>
  /\ UNCHANGED <<delays, pureVars, featureVars>>

\* await figma.getNodeByIdAsync(nodeId) resolved, then node.remove()
DeleteLookupResolved(k) ==
  /\ msg.command = "delete_multiple_nodes"
  /\ k \in 1..Len(items)
  /\ items[k].pc = "lookup"
  /\ LET id == items[k].entry
     IN IF id \in alive
        THEN /\ alive' = alive \ Subtree(id)
             /\ items' = [items EXCEPT ![k] = Resolve(@, Ok(id))]
        ELSE /\ \E r \in (IF items[k].found THEN StaleOutcomes(id)
                          ELSE {Failed(id, <<"Node not found", id>>)}) :
                  items' = [items EXCEPT ![k] = Resolve(@, r)]
             /\ UNCHANGED alive
  /\ UNCHANGED <<msg, annIndex, pc, outbox, events, fills, chars, annotated, hidden, unloadable,
                 commandId, chunks, chunkIndex, results, successCount, failureCount, scan>>
  /\ UNCHANGED <<delays, pureVars, featureVars>>

(***************************************************************************)
(* The continuations of setMultipleTextContents' chunk.map callback        *)
(***************************************************************************)
Highlight == "highlight"

\* await figma.getNodeByIdAsync(replacement.nodeId) resolved: the type
\* check, the highlight, and the call of setTextContent up to its await
TextLookupResolved(k) ==
  /\ msg.command = "set_multiple_text_contents"
  /\ k \in 1..Len(items)
  /\ items[k].pc = "lookup"
  /\ LET id == items[k].entry.nodeId
     IN IF id \notin alive
        THEN /\ items' = [items EXCEPT ![k] = Resolve(@, Failed(id, <<"Node not found", id>>))]
             /\ UNCHANGED fills
        ELSE IF NodeType(id) # "TEXT"
        THEN /\ items' = [items EXCEPT ![k] =
                             Resolve(@, Failed(id, <<"Node is not a text node", id, NodeType(id)>>))]
             /\ UNCHANGED fills
        ELSE /\ items' = [items EXCEPT ![k].pc = "setText", ![k].saved = Some(fills[id])]
             /\ fills' = [fills EXCEPT ![id] = Highlight]
  /\ UNCHANGED <<msg, annIndex, pc, outbox, events, alive, chars, annotated, hidden, unloadable,
                 commandId, chunks, chunkIndex, results, successCount, failureCount, scan>>
  /\ UNCHANGED <<delays, pureVars, featureVars>>

\* await setTextContent(...) settled: its lookup, figma.loadFontAsync and
\* setCharacters; a throw is caught by the callback's try block
TextSetTextSettled(k) ==
  /\ msg.command = "set_multiple_text_contents"
  /\ k \in 1..Len(items)
  /\ items[k].pc = "setText"
  /\ LET id == items[k].entry.nodeId
     IN IF id \notin alive
        THEN /\ items' = [items EXCEPT ![k] =
                    Resolve(@, Failed(id, <<"Error applying replacement", "Node not found with ID", id>>))]
             /\ UNCHANGED chars
        ELSE IF id \in unloadable
        THEN /\ items' = [items EXCEPT ![k] =
                    Resolve(@, Failed(id, <<"Error applying replacement", "Error setting text content">>))]
             /\ UNCHANGED chars
        ELSE /\ chars' = [chars EXCEPT ![id] = items[k].entry.text]
             /\ items' = [items EXCEPT ![k].pc = "delay"]
  /\ UNCHANGED <<msg, annIndex, pc, outbox, events, alive, fills, annotated, hidden, unloadable,
                 commandId, chunks, chunkIndex, results, successCount, failureCount, scan>>
  /\ UNCHANGED <<delays, pureVars, featureVars>>

\* await delay(500) elapsed: the original fills are put back
TextDelayElapsed(k) ==
  /\ msg.command = "set_multiple_text_contents"
  /\ k \in 1..Len(items)
  /\ items[k].pc = "delay"
  /\ LET id == items[k].entry.nodeId
     IN /\ fills' = [fills EXCEPT ![id] = Val(items[k].saved)]
        /\ items' = [items EXCEPT ![k] = Resolve(@, Ok(id))]
  /\ UNCHANGED <<msg, annIndex, pc, outbox, events, alive, chars, annotated, hidden, unloadable,
                 commandId, chunks, chunkIndex, results, successCount, failureCount, scan>>
  /\ UNCHANGED <<delays, pureVars, featureVars>>

(***************************************************************************)
(* TreeCollector: collectNodesToProcess                                    *)
(***************************************************************************)
\* node.name || `Unnamed ${node.type}`
NodeLabel(n) == IF NodeName(n) = "" THEN "Unnamed " \o NodeType(n) ELSE NodeName(n)

\* node.children of a live node
LiveChildren(n) == SelectSeq(NodeChildren(n), LAMBDA c : c \in alive)

\* a descriptor that drops the depth of the node
DescriptorAtDepthZero(n, path, depth) == [node |-> n, parentPath |-> path, depth |-> 0]

Descriptor(n, path, depth) == [node |-> n, parentPath |-> path, depth |-> depth]

\* a collection that leaves out an invisible node but still descends into it
RECURSIVE collectDescending(_, _, _)
RECURSIVE DescendChildren(_, _, _)
collectDescending(node, parentPath, depth) ==
  LET nodePath == Append(parentPath, NodeLabel(node))
  IN (IF node \in hidden THEN <<>> ELSE <<Descriptor(node, nodePath, depth)>>)
     \o (IF HasChildren(node)
         THEN DescendChildren(LiveChildren(node), nodePath, depth + 1)
         ELSE <<>>)
DescendChildren(children, nodePath, depth) ==
  IF children = <<>> THEN <<>>
  ELSE collectDescending(Head(children), nodePath, depth)
       \o DescendChildren(Tail(children), nodePath, depth)

RECURSIVE collectNodesToProcess(_, _, _)
RECURSIVE CollectChildren(_, _, _)
\* a collection that remembers the text nodes of the scan so far and leaves
\* them out
collectResuming(node, parentPath, depth) ==
  IF node \in hidden \/ \E k \in 1..Len(scan.allTextNodes) : scan.allTextNodes[k].id = node
  THEN <<>>
  ELSE LET nodePath == Append(parentPath, NodeLabel(node))
       IN <<Descriptor(node, nodePath, depth)>>
          \o (IF HasChildren(node)
              THEN CollectChildren(LiveChildren(node), nodePath, depth + 1)
              ELSE <<>>)

\* the children taken from the last to the first
CollectChildrenLastFirst(children, nodePath, depth) ==
  IF children = <<>> THEN <<>>
  ELSE CollectChildren(Tail(children), nodePath, depth)
       \o collectNodesToProcess(Head(children), nodePath, depth)

collectNodesToProcess(node, parentPath, depth) ==
  IF node \in hidden THEN <<>>
  ELSE LET nodePath == Append(parentPath, NodeLabel(node))
       IN <<Descriptor(node, nodePath, depth)>>
          \o (IF HasChildren(node)
              THEN CollectChildren(LiveChildren(node), nodePath, depth + 1)
              ELSE <<>>)
CollectChildren(children, nodePath, depth) ==
  IF children = <<>> THEN <<>>
  ELSE collectNodesToProcess(Head(children), nodePath, depth)
       \o CollectChildren(Tail(children), nodePath, depth)

(***************************************************************************)
(* scanTextNodes                                                           *)
(***************************************************************************)
ScanMessages ==
  {ExecuteCommand("scan_text_nodes", FALSE, NoParams)}
  \cup {ExecuteCommand("scan_text_nodes", TRUE, Params(n, c, None, TRUE, cs)) :
          n \in {"root", "g1", Ghost}, c \in {Undef, "c1"},
          cs \in {None} \cup {Some(x) : x \in (-1)..MaxChunkSize}}
  \cup {ExecuteCommand("scan_text_nodes", TRUE, Params(n, c, None, FALSE, None)) :
          n \in {"root", "g1", Ghost}, c \in {Undef, "c1"}}

\* chunkSize = 10 when the parameter is absent
ChunkSizeOf(m) == IF IsSome(m.params.chunkSize) THEN Val(m.params.chunkSize) ELSE DefaultChunkSize

\* the quotient rounded down instead of up
TotalChunksFloor(n, c) == IF c > 0 THEN Fin(n \div c) ELSE NaN

\* Math.ceil(totalNodes / chunkSize)
TotalChunks(n, c) ==
  IF c > 0 THEN Fin((n + c - 1) \div c)
  ELSE IF c = 0 THEN (IF n = 0 THEN NaN ELSE Infinite)
  ELSE Fin(-(n \div (-c)))

\* Math.round(5 + (chunksProcessed / totalChunks) * 90), run only with
\* totalNodes > 0, where totalChunks is a non-zero number or Infinity
ScanProgress(k, tc) ==
  IF tc = Infinite THEN 5
  ELSE IF tc[2] > 0 THEN ChunkProgress(k, tc[2])
  ELSE (2 * (5 * (-tc[2]) - 90 * k) + (-tc[2])) \div (2 * (-tc[2]))

\* the serialisable description processTextNode / findTextNodes build
SafeTextNode(d) ==
  [id |-> d.node, characters |-> chars[d.node], path |-> d.parentPath, depth |-> d.depth]

ScanLocals(nodes, tc) ==
  [nodesToProcess |-> nodes, totalChunks |-> tc, i |-> 0, processedNodes |-> 0,
   chunksProcessed |-> 0, allTextNodes |-> <<>>, chunkNodes |-> <<>>, j |-> 0,
   chunkTextNodes |-> <<>>, cur |-> None, saved |-> None, stack |-> <<>>]

FindLocals(root) ==
  [ScanLocals(<<>>, NaN) EXCEPT !.stack = <<Descriptor(root, <<>>, 0)>>]

ScanSummary(textNodes, processed, nchunks) ==
  [success |-> TRUE, textNodes |-> textNodes, processedNodes |-> processed,
   chunks |-> nchunks, commandId |-> commandId]

\* async function scanTextNodes(params), up to await getNodeByIdAsync
ScanReceive ==
  /\ pc = "inbox"
  /\ msg.command = "scan_text_nodes"
  /\ IF ~msg.hasParams
     THEN \* params.nodeId of undefined
          Throws(<<"TypeError">>) /\ UNCHANGED commandId
     ELSE /\ commandId' = IF msg.params.commandId # Undef THEN msg.params.commandId
                          ELSE GeneratedId
          /\ pc' = "scan_lookup"
          /\ UNCHANGED outbox
  /\ UNCHANGED <<msg, annIndex, events, treeVars, hidden, unloadable, chunks, chunkIndex, items,
                 results, successCount, failureCount, scan>>
  /\ UNCHANGED <<delays, pureVars, featureVars>>

\* the root lookup resolved: the not-found exit, the "started" event, and
\* for the chunked scan the collection and the planning-phase event
ScanLookupResolved ==
  /\ pc = "scan_lookup"
  /\ LET root == msg.params.nodeId
         cs == ChunkSizeOf(msg)
     IN IF root \notin alive
        THEN /\ events' = Post(events,
                  <<sendProgressUpdate(commandId, "scan_text_nodes", "error", 0, 0, 0,
                       Some(Payload(None, None, None, Some(<<"Node not found", root>>))))>>)
             /\ Throws(<<"Node with ID not found", root>>)
             /\ UNCHANGED scan
        ELSE IF ~msg.params.useChunking
        THEN /\ events' = Post(events,
                  <<sendProgressUpdate(commandId, "scan_text_nodes", "started", 0, 1, 0, NoPayload)>>)
             /\ scan' = FindLocals(root)
             /\ pc' = "find"
             /\ UNCHANGED outbox
        ELSE LET nodes == collectNodesToProcess(root, <<>>, 0)
                 tc == TotalChunks(Len(nodes), cs)
             IN /\ events' = Post(events,
                     <<sendProgressUpdate(commandId, "scan_text_nodes", "started", 0, 0, 0,
                          Some(Payload(None, None, Some(cs), None))),
                       sendProgressUpdate(commandId, "scan_text_nodes", "in_progress", 5,
                          Len(nodes), 0, Some(Payload(None, Some(tc), Some(cs), None)))>>)
                /\ scan' = ScanLocals(nodes, tc)
                /\ pc' = "loop_head"
                /\ UNCHANGED outbox
  /\ UNCHANGED <<msg, annIndex, treeVars, hidden, unloadable, batchVars>>
  /\ UNCHANGED <<delays, pureVars, featureVars>>

\* the head of `for (i ...; i < totalNodes; ...)`: the event before the
\* chunk and the slice; past the end, the "completed" event and the return
ScanLoopHead ==
  /\ pc = "loop_head"
  /\ LET totalNodes == Len(scan.nodesToProcess)
         cs == ChunkSizeOf(msg)
     IN IF scan.i < totalNodes
        THEN /\ events' = Post(events,
                  <<sendProgressUpdate(commandId, "scan_text_nodes", "in_progress",
                       ScanProgress(scan.chunksProcessed, scan.totalChunks),
                       totalNodes, scan.processedNodes,
                       Some(Payload(Some(scan.chunksProcessed + 1), Some(scan.totalChunks),
                                    None, None)))>>)
             /\ scan' = [scan EXCEPT
                  !.chunkNodes = Slice(scan.nodesToProcess, scan.i, Min(scan.i + cs, totalNodes)),
                  !.j = 1,
                  !.chunkTextNodes = <<>>]
             /\ pc' = "node_head"
             /\ UNCHANGED outbox
        ELSE /\ events' = Post(events,
                  <<sendProgressUpdate(commandId, "scan_text_nodes", "completed", 100,
                       totalNodes, scan.processedNodes,
                       Some(Payload(None, None, None, Some(scan.allTextNodes))))>>)
             /\ Returns(ScanSummary(scan.allTextNodes, scan.processedNodes, scan.chunksProcessed))
             /\ UNCHANGED scan
  /\ UNCHANGED <<msg, annIndex, treeVars, hidden, unloadable, batchVars>>
  /\ UNCHANGED <<delays, pureVars, featureVars>>

\* the head of `for (const nodeInfo of chunkNodes)`: a text node is
\* highlighted by processTextNode; past the end of the chunk the results
\* are added and the event after the chunk is sent.  nodeInfo.node.type is
\* read outside the try block: of a node removed since the collection the
\* host either rejects the read (the exception leaves scanTextNodes) or
\* still gives the properties the node had
ScanNodeHead ==
  /\ pc = "node_head"
  /\ LET totalNodes == Len(scan.nodesToProcess)
         cs == ChunkSizeOf(msg)
     IN IF scan.j > Len(scan.chunkNodes)
        THEN LET found == scan.allTextNodes \o scan.chunkTextNodes
                 processed == scan.processedNodes + Len(scan.chunkNodes)
                 done == Min(scan.chunksProcessed + 1, MaxIter)
             IN /\ events' = Post(events,
                     <<sendProgressUpdate(commandId, "scan_text_nodes", "in_progress",
                          ScanProgress(done, scan.totalChunks), totalNodes, processed,
                          Some(Payload(Some(done), Some(scan.totalChunks), None,
                                       Some(scan.chunkTextNodes))))>>)
                /\ IF scan.i + cs < totalNodes
                   THEN /\ pc' = "scan_pause"
                        /\ delays' = Min(delays + 1, MaxIter)
                        /\ scan' = [scan EXCEPT !.allTextNodes = found,
                                      !.processedNodes = processed, !.chunksProcessed = done]
                   ELSE /\ pc' = "loop_head"
                        /\ UNCHANGED delays
                        /\ scan' = [scan EXCEPT !.allTextNodes = found,
                                      !.processedNodes = processed, !.chunksProcessed = done,
                                      !.i = scan.i + cs]
                /\ UNCHANGED <<fills, outbox>>
        ELSE LET d == scan.chunkNodes[scan.j]
             IN \E rejects \in BOOLEAN :
                  IF d.node \notin alive /\ rejects
                  THEN /\ Throws(<<"The node does not exist", d.node>>)
                       /\ UNCHANGED <<scan, fills, events, delays>>
                  ELSE IF NodeType(d.node) = "TEXT"
                  THEN /\ scan' = [scan EXCEPT !.cur = Some(SafeTextNode(d)),
                                     !.saved = Some(fills[d.node])]
                       /\ fills' = [fills EXCEPT ![d.node] = Highlight]
                       /\ pc' = "scan_hl"
                       /\ UNCHANGED <<events, delays, outbox>>
                  ELSE /\ pc' = "scan_tick"
                       /\ UNCHANGED <<scan, fills, events, delays, outbox>>
  /\ UNCHANGED <<msg, annIndex, alive, chars, annotated, hidden, unloadable, batchVars>>
  /\ UNCHANGED <<pureVars, featureVars>>

\* processTextNode without the assignment that puts the fills back
ScanHighlightKept ==
  /\ pc = "scan_hl"
  /\ scan' = [scan EXCEPT !.chunkTextNodes = Append(@, Val(scan.cur)),
                !.cur = None, !.saved = None]
  /\ pc' = "scan_tick"
  /\ UNCHANGED <<msg, annIndex, outbox, events, alive, fills, chars, annotated, hidden, unloadable, batchVars>>
  /\ UNCHANGED <<delays, pureVars, featureVars>>

\* processTextNode: await delay(100) elapsed, the fills are put back
ScanHighlightElapsed ==
  /\ pc = "scan_hl"
  /\ fills' = [fills EXCEPT ![Val(scan.cur).id] = Val(scan.saved)]
  /\ scan' = [scan EXCEPT !.chunkTextNodes = Append(@, Val(scan.cur)),
                !.cur = None, !.saved = None]
  /\ pc' = "scan_tick"
  /\ UNCHANGED <<msg, annIndex, outbox, events, alive, chars, annotated, hidden, unloadable, batchVars>>
  /\ UNCHANGED <<delays, pureVars, featureVars>>

\* await delay(5) after each node elapsed
ScanTick ==
  /\ pc = "scan_tick"
  /\ scan' = [scan EXCEPT !.j = @ + 1]
  /\ pc' = "node_head"
  /\ UNCHANGED <<msg, annIndex, outbox, events, treeVars, hidden, unloadable, batchVars>>
  /\ UNCHANGED <<delays, pureVars, featureVars>>

\* await delay(50) between two chunks elapsed; i += chunkSize
ScanPause ==
  /\ pc = "scan_pause"
  /\ scan' = [scan EXCEPT !.i = Max(@ + ChunkSizeOf(msg), -MaxIter)]
  /\ pc' = "loop_head"
  /\ UNCHANGED <<msg, annIndex, outbox, events, treeVars, hidden, unloadable, batchVars>>
  /\ UNCHANGED <<delays, pureVars, featureVars>>

\* findTextNodes (useChunking false): one call of the recursion, the
\* pending calls kept on a stack; with the stack empty, "completed"
FindStep ==
  /\ pc = "find"
  /\ IF scan.stack = <<>>
     THEN /\ events' = Post(events,
               <<sendProgressUpdate(commandId, "scan_text_nodes", "completed", 100,
                    Len(scan.allTextNodes), Len(scan.allTextNodes),
                    Some(Payload(None, None, None, Some(scan.allTextNodes))))>>)
          /\ Returns(ScanSummary(scan.allTextNodes, Len(scan.allTextNodes), 0))
          /\ UNCHANGED <<scan, fills>>
     ELSE LET top == Head(scan.stack)
              node == top.node
              nodePath == Append(top.parentPath, NodeLabel(node))
              calls == [k \in 1..Len(LiveChildren(node)) |->
                          Descriptor(LiveChildren(node)[k], nodePath, top.depth + 1)]
          IN /\ UNCHANGED <<events, outbox>>
             /\ IF node \in hidden
                THEN /\ scan' = [scan EXCEPT !.stack = Tail(@)]
                     /\ pc' = "find"
                     /\ UNCHANGED fills
                ELSE IF NodeType(node) = "TEXT"
                THEN /\ scan' = [scan EXCEPT !.stack = Tail(@),
                                   !.cur = Some(SafeTextNode(Descriptor(node, nodePath, top.depth))),
                                   !.saved = Some(fills[node])]
                     /\ fills' = [fills EXCEPT ![node] = Highlight]
                     /\ pc' = "find_hl"
                ELSE /\ scan' = [scan EXCEPT !.stack = calls \o Tail(@)]
                     /\ pc' = "find"
                     /\ UNCHANGED fills
  /\ UNCHANGED <<msg, annIndex, alive, chars, annotated, hidden, unloadable, batchVars>>
  /\ UNCHANGED <<delays, pureVars, featureVars>>

\* findTextNodes: await delay(500) elapsed, the fills are put back
FindHighlightElapsed ==
  /\ pc = "find_hl"
  /\ fills' = [fills EXCEPT ![Val(scan.cur).id] = Val(scan.saved)]
  /\ scan' = [scan EXCEPT !.allTextNodes = Append(@, Val(scan.cur)),
                !.cur = None, !.saved = None]
  /\ pc' = "find"
  /\ UNCHANGED <<msg, annIndex, outbox, events, alive, chars, annotated, hidden, unloadable, batchVars>>
  /\ UNCHANGED <<delays, pureVars, featureVars>>

(***************************************************************************)
(* setMultipleAnnotations and setAnnotation                                *)
(***************************************************************************)
Annotation(nodeId, label) == [isNull |-> FALSE, nodeId |-> nodeId, labelMarkdown |-> label]
NullAnnotation == [isNull |-> TRUE, nodeId |-> Undef, labelMarkdown |-> Undef]
Annotations ==
  {Annotation("t1", "note"), Annotation("g1", "note"), Annotation(Ghost, "note"),
   Annotation(Undef, "note"), Annotation("t1", Undef), NullAnnotation}
AnnotationMessages ==
  {ExecuteCommand("set_multiple_annotations", FALSE, NoParams)}
  \cup {ExecuteCommand("set_multiple_annotations", TRUE, Params("root", Undef, l, TRUE, None)) :
          l \in {None} \cup {Some(a) : a \in Periodic(Annotations, MaxItems)}}

AnnotationSummary ==
  [success |-> successCount > 0,
   succeeded |-> successCount,
   failed |-> failureCount,
   total |-> Len(Val(msg.params.list)),
   results |-> results]

\* async function setMultipleAnnotations(params), up to the loop
AnnotationsReceive ==
  /\ pc = "inbox"
  /\ msg.command = "set_multiple_annotations"
  /\ IF ~msg.hasParams
     THEN \* destructuring undefined
          Throws(<<"TypeError">>)
     ELSE IF ~IsSome(msg.params.list) \/ Val(msg.params.list) = <<>>
     THEN Returns([success |-> FALSE, error |-> <<"No annotations provided">>])
     ELSE pc' = "ann_head" /\ UNCHANGED outbox
  /\ UNCHANGED <<msg, annIndex, events, treeVars, hidden, unloadable, batchVars, scan>>
  /\ UNCHANGED <<delays, pureVars, featureVars>>

\* the head of `for (i ...)`: the call of setAnnotation up to its await on
\* the lookup; a validation failure of setAnnotation is tallied at once; a
\* null entry throws inside the catch block; past the end, the summary
AnnotationHead ==
  /\ pc = "ann_head"
  /\ LET annotations == Val(msg.params.list)
     IN IF annIndex >= Len(annotations)
        THEN /\ Returns(AnnotationSummary)
             /\ UNCHANGED <<annIndex, results, failureCount>>
        ELSE LET a == annotations[annIndex + 1]
             IN IF a.isNull
                THEN /\ failureCount' = failureCount + 1
                     /\ Throws(<<"TypeError">>)
                     /\ UNCHANGED <<annIndex, results>>
                ELSE IF a.nodeId = Undef \/ a.labelMarkdown = Undef
                THEN /\ failureCount' = failureCount + 1
                     /\ results' = Append(results,
                           Failed(a.nodeId, IF a.nodeId = Undef THEN <<"Missing nodeId">>
                                            ELSE <<"Missing labelMarkdown">>))
                     /\ annIndex' = annIndex + 1
                     /\ UNCHANGED <<pc, outbox>>
                ELSE /\ pc' = "ann_lookup"
                     /\ UNCHANGED <<annIndex, results, failureCount, outbox>>
  /\ UNCHANGED <<msg, events, treeVars, hidden, unloadable, commandId, chunks,
                 chunkIndex, items, successCount, scan>>
  /\ UNCHANGED <<delays, pureVars, featureVars>>

\* setAnnotation: await figma.getNodeByIdAsync(nodeId) resolved
AnnotationLookupResolved ==
  /\ pc = "ann_lookup"
  /\ LET a == Val(msg.params.list)[annIndex + 1]
         id == a.nodeId
     IN IF id \in alive /\ SupportsAnnotations(id)
        THEN /\ annotated' = annotated \cup {id}
             /\ successCount' = successCount + 1
             /\ results' = Append(results, Ok(id))
             /\ UNCHANGED failureCount
        ELSE /\ failureCount' = failureCount + 1
             /\ results' = Append(results,
                   Failed(id, IF id \notin alive THEN <<"Node not found", id>>
                              ELSE <<"Node type does not support annotations", NodeType(id)>>))
             /\ UNCHANGED <<annotated, successCount>>
  /\ annIndex' = annIndex + 1
  /\ pc' = "ann_head"
  /\ UNCHANGED <<msg, outbox, events, alive, fills, chars, hidden, unloadable, commandId,
                 chunks, chunkIndex, items, scan>>
  /\ UNCHANGED <<delays, pureVars, featureVars>>

(***************************************************************************)
(* scanNodesByTypes and findNodesByTypes                                   *)
(***************************************************************************)
\* params.types is carried in the list field of the parameters
TypeLists == {<<>>, <<"TEXT">>, <<"GROUP", "RECTANGLE">>, <<"FRAME", "TEXT">>}

TypesMessages ==
  {ExecuteCommand("scan_nodes_by_types", FALSE, NoParams)}
  \cup {ExecuteCommand("scan_nodes_by_types", TRUE, Params(n, Undef, l, TRUE, None)) :
          n \in {"root", "g1", Ghost},
          l \in {None} \cup {Some(types) : types \in TypeLists}}

InList(x, s) == \E k \in 1..Len(s) : s[k] = x

Match(n) == [id |-> n, name |-> NodeLabel(n), type |-> NodeType(n)]

RECURSIVE findNodesByTypes(_, _)
RECURSIVE FindInChildren(_, _)
findNodesByTypes(node, types) ==
  IF node \in hidden THEN <<>>
  ELSE (IF InList(NodeType(node), types) THEN <<Match(node)>> ELSE <<>>)
       \o (IF HasChildren(node) THEN FindInChildren(LiveChildren(node), types) ELSE <<>>)
FindInChildren(children, types) ==
  IF children = <<>> THEN <<>>
  ELSE findNodesByTypes(Head(children), types) \o FindInChildren(Tail(children), types)

TypesSummary(matchingNodes, types) ==
  [success |-> TRUE, count |-> Len(matchingNodes), matchingNodes |-> matchingNodes,
   searchedTypes |-> types]

\* async function scanNodesByTypes(params), up to its await on the lookup
TypesReceive ==
  /\ pc = "inbox"
  /\ msg.command = "scan_nodes_by_types"
  /\ IF ~msg.hasParams
     THEN \* params.nodeId of undefined
          Throws(<<"TypeError">>)
     ELSE IF ~IsSome(msg.params.list) \/ Val(msg.params.list) = <<>>
     THEN Throws(<<"No types specified to search for">>)
     ELSE pc' = "types_lookup" /\ UNCHANGED outbox
  /\ UNCHANGED <<msg, annIndex, events, treeVars, hidden, unloadable, batchVars, scan>>
  /\ UNCHANGED <<delays, pureVars, featureVars>>

\* a lookup whose missing root is taken for a tree without nodes
TypesLookupLenient ==
  /\ pc = "types_lookup"
  /\ LET root == msg.params.nodeId
         types == Val(msg.params.list)
         matchingNodes == IF root \in alive THEN findNodesByTypes(root, types) ELSE <<>>
     IN /\ commandId' = GeneratedId
        /\ events' = Post(events,
             <<sendProgressUpdate(GeneratedId, "scan_nodes_by_types", "started",
                  0, 1, 0, NoPayload),
               sendProgressUpdate(GeneratedId, "scan_nodes_by_types", "completed",
                  100, Len(matchingNodes), Len(matchingNodes),
                  Some(Payload(None, None, None, Some(matchingNodes))))>>)
        /\ Returns(TypesSummary(matchingNodes, types))
  /\ UNCHANGED <<msg, annIndex, treeVars, hidden, unloadable, chunks, chunkIndex, items,
                 results, successCount, failureCount, scan>>
  /\ UNCHANGED <<delays, pureVars, featureVars>>

\* the root lookup resolved: the not-found exit, or "started", the search,
\* "completed" and the return
TypesLookupResolved ==
  /\ pc = "types_lookup"
  /\ LET root == msg.params.nodeId
         types == Val(msg.params.list)
     IN IF root \notin alive
        THEN /\ Throws(<<"Node with ID not found", root>>)
             /\ UNCHANGED <<events, commandId>>
        ELSE LET matchingNodes == findNodesByTypes(root, types)
             IN /\ commandId' = GeneratedId
                /\ events' = Post(events,
                     <<sendProgressUpdate(GeneratedId, "scan_nodes_by_types", "started",
                          0, 1, 0, NoPayload),
                       sendProgressUpdate(GeneratedId, "scan_nodes_by_types", "completed",
                          100, Len(matchingNodes), Len(matchingNodes),
                          Some(Payload(None, None, None, Some(matchingNodes))))>>)
                /\ Returns(TypesSummary(matchingNodes, types))
  /\ UNCHANGED <<msg, annIndex, treeVars, hidden, unloadable, chunks, chunkIndex, items,
                 results, successCount, failureCount, scan>>
  /\ UNCHANGED <<delays, pureVars, featureVars>>

(***************************************************************************)
(* handleCommand: a simple command (delete_node) and the default branch    *)
(***************************************************************************)
SimpleMessages ==
  {ExecuteCommand("delete_node", FALSE, NoParams)}
  \cup {ExecuteCommand("delete_node", TRUE, Params(n, Undef, None, TRUE, None)) :
          n \in {"t1", "g1", Ghost, Undef}}
  \cup {ExecuteCommand(c, h, NoParams) : c \in {"bogus_command"}, h \in BOOLEAN}

RoutedCommands ==
  {"scan_text_nodes", "set_multiple_text_contents", "delete_multiple_nodes",
   "set_multiple_annotations", "delete_node", "scan_nodes_by_types",
   "get_node_info", "get_nodes_info", "set_annotation", "export_node_as_image"}

\* async function deleteNode(params), up to its await on the lookup
DeleteNodeReceive ==
  /\ pc = "inbox"
  /\ msg.plugin = MainPlugin
  /\ msg.command = "delete_node"
  /\ IF ~msg.hasParams \/ msg.params.nodeId = Undef
     THEN Throws(<<"Missing nodeId parameter">>)
     ELSE pc' = "node_lookup" /\ UNCHANGED outbox
  /\ UNCHANGED <<msg, annIndex, events, treeVars, hidden, unloadable, batchVars, scan>>
  /\ UNCHANGED <<delays, pureVars, featureVars>>

\* deleteNode: the lookup resolved, node.remove()
DeleteNodeResolved ==
  /\ pc = "node_lookup"
  /\ LET id == msg.params.nodeId
     IN IF id \notin alive
        THEN Throws(<<"Node not found with ID", id>>) /\ UNCHANGED alive
        ELSE /\ alive' = alive \ Subtree(id)
             /\ Returns([id |-> id, name |-> NodeName(id), type |-> NodeType(id)])
  /\ UNCHANGED <<msg, annIndex, events, fills, chars, annotated, hidden, unloadable,
                 batchVars, scan>>
  /\ UNCHANGED <<delays, pureVars, featureVars>>

\* handleCommand: default: throw new Error(`Unknown command: ${command}`)
UnknownCommand ==
  /\ pc = "inbox"
  /\ msg.plugin = MainPlugin
  /\ msg.command \notin RoutedCommands
  /\ Throws(<<"Unknown command", msg.command>>)
  /\ UNCHANGED <<msg, annIndex, events, treeVars, hidden, unloadable, batchVars, scan>>
  /\ UNCHANGED <<delays, pureVars, featureVars>>

(***************************************************************************)
(* handleCommand: case "export_node_as_image"                              *)
(***************************************************************************)
ExportMessages ==
  {ExecuteCommand("export_node_as_image", FALSE, NoParams)}
  \cup {ExecuteCommand("export_node_as_image", TRUE, Params(n, Undef, None, TRUE, None)) :
          n \in {"t1", "g1", Ghost, Undef}}

\* a call of a function that no script of the plugin defines
NotDefined(name) == <<"ReferenceError", name, "is not defined">>

\* the destructuring of params and figma.getNodeById(nodeId), up to the
\* await on node.exportAsync; a throw in the try block enters the catch
\* block, whose call of sendCommandResult throws out of handleCommand
ExportReceive ==
  /\ pc = "inbox"
  /\ msg.plugin = MainPlugin
  /\ msg.command = "export_node_as_image"
  /\ IF ~msg.hasParams \/ msg.params.nodeId \notin alive
     THEN Throws(NotDefined("sendCommandResult"))
     ELSE pc' = "export" /\ UNCHANGED outbox
  /\ UNCHANGED <<msg, annIndex, events, treeVars, hidden, unloadable, batchVars, scan>>
  /\ UNCHANGED <<delays, pureVars, featureVars>>

\* await node.exportAsync(settings) settled: the host gave the bytes or
\* rejected
ExportSettled ==
  /\ pc = "export"
  /\ \E exported \in BOOLEAN : pc' = IF exported THEN "exported" ELSE "export_failed"
  /\ UNCHANGED <<msg, annIndex, outbox, events, treeVars, hidden, unloadable, batchVars, scan>>
  /\ UNCHANGED <<delays, pureVars, featureVars>>

\* sendCommandResult('export_node_as_image', ...) after the export, in the
\* try block or in the catch block: the call throws, and from the try block
\* the catch block's call throws again
ExportReply ==
  /\ pc \in {"exported", "export_failed"}
  /\ Throws(NotDefined("sendCommandResult"))
  /\ UNCHANGED <<msg, annIndex, events, treeVars, hidden, unloadable, batchVars, scan>>
  /\ UNCHANGED <<delays, pureVars, featureVars>>

(***************************************************************************)
(* handleCommand: get_node_info, get_nodes_info (validated in the switch)  *)
(* and set_annotation as a command of its own                              *)
(***************************************************************************)
InfoMessages ==
  {ExecuteCommand(c, FALSE, NoParams) : c \in {"get_node_info", "get_nodes_info", "set_annotation"}}
  \cup {ExecuteCommand("get_node_info", TRUE, Params(n, Undef, None, TRUE, None)) :
          n \in {"t1", Ghost, Undef}}
  \cup {ExecuteCommand("get_nodes_info", TRUE, Params(Undef, Undef, l, TRUE, None)) :
          l \in {None, Some(<<>>), Some(<<"t1">>), Some(<<"t1", Ghost, "g1">>)}}
  \* params.labelMarkdown is carried in the list field of the parameters
  \cup {ExecuteCommand("set_annotation", TRUE, Params(n, Undef, l, TRUE, None)) :
          n \in {"t1", "g1", Ghost, Undef}, l \in {None, Some(<<"note">>)}}

NodeInfo(n) == [id |-> n, name |-> NodeName(n), type |-> NodeType(n)]

\* case "get_node_info": the test in the switch, then getNodeInfo up to its
\* await on the lookup
GetNodeInfoReceive ==
  /\ pc = "inbox"
  /\ msg.plugin = MainPlugin
  /\ msg.command = "get_node_info"
  /\ IF ~msg.hasParams \/ msg.params.nodeId = Undef
     THEN Throws(<<"Missing nodeId parameter">>)
     ELSE pc' = "info_lookup" /\ UNCHANGED outbox
  /\ UNCHANGED <<msg, annIndex, events, treeVars, hidden, unloadable, batchVars, scan>>
  /\ UNCHANGED <<delays, pureVars, featureVars>>

\* getNodeInfo: the lookup resolved; a node found is exported
GetNodeInfoResolved ==
  /\ pc = "info_lookup"
  /\ msg.command = "get_node_info"
  /\ IF msg.params.nodeId \notin alive
     THEN Throws(<<"Node not found with ID", msg.params.nodeId>>)
     ELSE pc' = "info_export" /\ UNCHANGED outbox
  /\ UNCHANGED <<msg, annIndex, events, treeVars, hidden, unloadable, batchVars, scan>>
  /\ UNCHANGED <<delays, pureVars, featureVars>>

\* case "get_nodes_info": the test in the switch, then getNodesInfo up to
\* its await on the lookups
GetNodesInfoReceive ==
  /\ pc = "inbox"
  /\ msg.plugin = MainPlugin
  /\ msg.command = "get_nodes_info"
  /\ IF ~msg.hasParams \/ ~IsSome(msg.params.list)
     THEN Throws(<<"Missing or invalid nodeIds parameter">>)
     ELSE pc' = "info_lookup" /\ UNCHANGED outbox
  /\ UNCHANGED <<msg, annIndex, events, treeVars, hidden, unloadable, batchVars, scan>>
  /\ UNCHANGED <<delays, pureVars, featureVars>>

\* getNodesInfo: Promise.all of the lookups resolved; the nodes found are
\* exported
GetNodesInfoResolved ==
  /\ pc = "info_lookup"
  /\ msg.command = "get_nodes_info"
  /\ pc' = "info_export"
  /\ UNCHANGED <<msg, annIndex, outbox, events, treeVars, hidden, unloadable, batchVars, scan>>
  /\ UNCHANGED <<delays, pureVars, featureVars>>

\* await node.exportAsync(...) resolved: the description is returned
InfoExported ==
  /\ pc = "info_export"
  /\ IF msg.command = "get_node_info"
     THEN Returns(NodeInfo(msg.params.nodeId))
     ELSE LET validNodes == SelectSeq(Val(msg.params.list), LAMBDA id : id \in alive)
          IN Returns([k \in 1..Len(validNodes) |-> NodeInfo(validNodes[k])])
  /\ UNCHANGED <<msg, annIndex, events, treeVars, hidden, unloadable, batchVars, scan>>
  /\ UNCHANGED <<delays, pureVars, featureVars>>

\* async function setAnnotation(params), up to its await on the lookup:
\* every failure, the TypeError of undefined params included, is returned
SetAnnotationReceive ==
  /\ pc = "inbox"
  /\ msg.plugin = MainPlugin
  /\ msg.command = "set_annotation"
  /\ IF ~msg.hasParams
     THEN Returns([success |-> FALSE, error |-> <<"TypeError">>])
     ELSE IF msg.params.nodeId = Undef
     THEN Returns([success |-> FALSE, error |-> <<"Missing nodeId">>])
     ELSE IF ~IsSome(msg.params.list)
     THEN Returns([success |-> FALSE, error |-> <<"Missing labelMarkdown">>])
     ELSE pc' = "set_ann_lookup" /\ UNCHANGED outbox
  /\ UNCHANGED <<msg, annIndex, events, treeVars, hidden, unloadable, batchVars, scan>>
  /\ UNCHANGED <<delays, pureVars, featureVars>>

\* setAnnotation: the lookup resolved
SetAnnotationResolved ==
  /\ pc = "set_ann_lookup"
  /\ LET id == msg.params.nodeId
     IN IF id \notin alive
        THEN /\ Returns([success |-> FALSE, error |-> <<"Node not found", id>>])
             /\ UNCHANGED annotated
        ELSE IF ~SupportsAnnotations(id)
        THEN /\ Returns([success |-> FALSE,
                         error |-> <<"Node type does not support annotations", NodeType(id)>>])
             /\ UNCHANGED annotated
        ELSE /\ annotated' = annotated \cup {id}
             /\ Returns([success |-> TRUE, error |-> None])
  /\ UNCHANGED <<msg, annIndex, events, alive, fills, chars, hidden, unloadable,
                 batchVars, scan>>
  /\ UNCHANGED <<delays, pureVars, featureVars>>

(***************************************************************************)
(* figma-plugin-features (code.ts): figma.ui.onmessage, 'execute-command'  *)
(***************************************************************************)
FeaturesCommands == {"get_selection"}

FeaturesMessages ==
  {[ExecuteCommand(c, FALSE, NoParams) EXCEPT !.plugin = FeaturesPlugin] :
      c \in {"get_selection", "bogus_command", "delete_node"}}

\* case 'get_selection': the selection (empty here) is posted as the result
FeaturesGetSelection ==
  /\ pc = "inbox"
  /\ msg.plugin = FeaturesPlugin
  /\ msg.command = "get_selection"
  /\ Returns([selectionCount |-> 0, selection |-> <<>>])
  /\ UNCHANGED <<msg, annIndex, events, treeVars, hidden, unloadable, batchVars, scan>>
  /\ UNCHANGED <<delays, pureVars, featureVars>>

\* default: console.error('Unknown command'); break;  then return
FeaturesUnknownCommand ==
  /\ pc = "inbox"
  /\ msg.plugin = FeaturesPlugin
  /\ msg.command \notin FeaturesCommands
  /\ pc' = "done"
  /\ UNCHANGED <<msg, annIndex, outbox, events, treeVars, hidden, unloadable, batchVars, scan>>
  /\ UNCHANGED <<delays, pureVars, featureVars>>

(***************************************************************************)
(* Text nodes and their fonts: node.characters, node.getRangeFontName,     *)
(* node.setRangeFontName.  A text is a sequence of one-character strings,  *)
(* a font is its key `family::style`; positions are 0-based as in the      *)
(* code.                                                                   *)
(***************************************************************************)
NL == "\n"
SP == " "
Chars == {"A", SP, NL}
Fonts == {"X", "Y"}
Mixed == "figma.mixed"
FallbackFont == "Inter::Regular"
UndefFont == "undefined::undefined"    \* `${mixed.family}::${mixed.style}`
HostError == "host error"              \* the host call threw

TextNode(characters, fonts) == [characters |-> characters, fonts |-> fonts]
NoTextNode == TextNode(<<>>, <<>>)

\* the texts of length <= n with one font per character
TextsUpTo(n) ==
  UNION {{TextNode(cs, fs) : cs \in [1..k -> Chars], fs \in [1..k -> Fonts]} : k \in 0..n}

\* "AB\nCD EF" with "AB" in X, "CD" in Y and "EF" in Z
SampleText ==
  TextNode(<<"A", "B", NL, "C", "D", SP, "E", "F">>,
           <<"X", "X", "X", "Y", "Y", "Y", "Z", "Z">>)

\* str[i]
CharAt(str, i) == IF i >= 0 /\ i < Len(str) THEN str[i + 1] ELSE Undef

\* node.getRangeFontName(a, b): the one font of [a, b), or figma.mixed; the
\* host rejects a range that is empty or not inside the text
getRangeFontName(n, a, b) ==
  IF ~(0 <= a /\ a < b /\ b <= Len(n.characters)) THEN HostError
  ELSE IF \A k \in (a + 1)..b : n.fonts[k] = n.fonts[a + 1] THEN n.fonts[a + 1]
  ELSE Mixed

\* what a host call with an argument outside its contract gives: a host
\* that validates throws, one that does not reports no single font
HostGives(lenient, v) == IF v = HostError /\ lenient THEN Mixed ELSE v

\* `${font.family}::${font.style}`
FontKey(v) == IF v = Mixed THEN UndefFont ELSE v

\* node.setRangeFontName(a, b, font)
setRangeFontName(fonts, a, b, font) ==
  [k \in 1..Len(fonts) |-> IF a < k /\ k <= b THEN font ELSE fonts[k]]

\* node.fontName = font; node.characters = characters
Retyped(characters, font) == TextNode(characters, [k \in 1..Len(characters) |-> font])

(***************************************************************************)
(* getDelimiterPos(str, delimiter, startIdx, endIdx)                       *)
(***************************************************************************)
RECURSIVE DelimiterLoop(_, _, _, _, _, _, _)
DelimiterLoop(str, delimiter, startIdx, endIdx, i, temp, indices) ==
  IF i < endIdx
  THEN IF /\ CharAt(str, i) = delimiter
          /\ i + startIdx # endIdx
          /\ temp # i + startIdx
       THEN DelimiterLoop(str, delimiter, startIdx, endIdx, i + 1, i + startIdx + 1,
                          Append(indices, <<temp, i + startIdx>>))
       ELSE DelimiterLoop(str, delimiter, startIdx, endIdx, i + 1, temp, indices)
  ELSE IF temp # endIdx THEN Append(indices, <<temp, endIdx>>) ELSE indices

getDelimiterPos(str, delimiter, startIdx, endIdx) ==
  DelimiterLoop(str, delimiter, startIdx, endIdx, startIdx, startIdx, <<>>)

(***************************************************************************)
(* buildLinearOrder(node)                                                  *)
(***************************************************************************)
FontRun(start, delimiter, font) == [start |-> start, delimiter |-> delimiter, font |-> font]

\* the callback of spacesPos.forEach for one range: the run it pushes; a
\* run of font HostError stands for the exception of the host call
SpaceRun(n, lenient, range) ==
  LET spacesRangeFont == HostGives(lenient, getRangeFontName(n, range[1], range[2]))
      \* node.getRangeFontName(spacesRangeStart, spacesRangeStart[0]): the
      \* second argument is undefined
      inner == HostGives(lenient, HostError)
  IN IF spacesRangeFont = Mixed
     THEN FontRun(range[1], SP, IF inner = HostError THEN HostError ELSE FontKey(inner))
     ELSE FontRun(range[1], SP, spacesRangeFont)

\* the callback of newLinesPos.forEach for one range: the runs it pushes
LineRuns(n, lenient, range) ==
  LET newLinesRangeFont == getRangeFontName(n, range[1], range[2])
  IN IF newLinesRangeFont = Mixed
     THEN LET spacesPos == getDelimiterPos(n.characters, SP, range[1], range[2])
          IN [k \in 1..Len(spacesPos) |-> SpaceRun(n, lenient, spacesPos[k])]
     ELSE <<FontRun(range[1], NL, newLinesRangeFont)>>

RECURSIVE Flatten(_)
Flatten(ss) == IF ss = <<>> THEN <<>> ELSE Head(ss) \o Flatten(Tail(ss))

\* fontTree.sort((a, b) => +a.start - +b.start): a stable sort
RECURSIVE InsertByStart(_, _)
InsertByStart(sorted, run) ==
  IF sorted = <<>> THEN <<run>>
  ELSE IF sorted[Len(sorted)].start <= run.start THEN Append(sorted, run)
  ELSE Append(InsertByStart(SubSeq(sorted, 1, Len(sorted) - 1), run), sorted[Len(sorted)])

RECURSIVE SortByStart(_)
SortByStart(runs) ==
  IF runs = <<>> THEN <<>>
  ELSE InsertByStart(SortByStart(SubSeq(runs, 1, Len(runs) - 1)), runs[Len(runs)])

\* the sorted fontTree, or the exception of a host call
buildLinearOrder(n, lenient) ==
  LET newLinesPos == getDelimiterPos(n.characters, NL, 0, Len(n.characters))
      pushed == Flatten([k \in 1..Len(newLinesPos) |-> LineRuns(n, lenient, newLinesPos[k])])
      threw == \E k \in 1..Len(pushed) : pushed[k].font = HostError
  IN [threw |-> threw, fontTree |-> IF threw THEN <<>> ELSE SortByStart(pushed)]

(***************************************************************************)
(* setCharactersWithSmartMatchFont(node, characters, fallbackFont)         *)
(***************************************************************************)
\* node.characters.indexOf(delimiter, prevPos)
RECURSIVE IndexOf(_, _, _)
IndexOf(str, delimiter, from) ==
  IF from >= Len(str) THEN -1
  ELSE IF CharAt(str, from) = delimiter THEN from
  ELSE IndexOf(str, delimiter, from + 1)

Assigned(prevPos, endPos, font) == [prevPos |-> prevPos, endPos |-> endPos, font |-> font]

\* rangeTree.forEach: the fonts of the new text and the ranges assigned
\* the loop taking the delimiter's index also when it is the cursor itself
RECURSIVE SmartLoopAtOrAfter(_, _, _, _, _, _)
SmartLoopAtOrAfter(rangeTree, k, characters, prevPos, fonts, assigned) ==
  IF k > Len(rangeTree) THEN [fonts |-> fonts, assigned |-> assigned]
  ELSE IF prevPos < Len(characters)
  THEN LET delimeterPos == IndexOf(characters, rangeTree[k].delimiter, prevPos)
           endPos == IF delimeterPos >= prevPos THEN delimeterPos ELSE Len(characters)
       IN SmartLoopAtOrAfter(rangeTree, k + 1, characters, endPos + 1,
                    setRangeFontName(fonts, prevPos, endPos, rangeTree[k].font),
                    Append(assigned, Assigned(prevPos, endPos, rangeTree[k].font)))
  ELSE SmartLoopAtOrAfter(rangeTree, k + 1, characters, prevPos, fonts, assigned)

RECURSIVE SmartLoop(_, _, _, _, _, _)
SmartLoop(rangeTree, k, characters, prevPos, fonts, assigned) ==
  IF k > Len(rangeTree) THEN [fonts |-> fonts, assigned |-> assigned]
  ELSE IF prevPos < Len(characters)
  THEN LET delimeterPos == IndexOf(characters, rangeTree[k].delimiter, prevPos)
           endPos == IF delimeterPos > prevPos THEN delimeterPos ELSE Len(characters)
       IN SmartLoop(rangeTree, k + 1, characters, endPos + 1,
                    setRangeFontName(fonts, prevPos, endPos, rangeTree[k].font),
                    Append(assigned, Assigned(prevPos, endPos, rangeTree[k].font)))
  ELSE SmartLoop(rangeTree, k + 1, characters, prevPos, fonts, assigned)

setCharactersWithSmartMatchFont(n, characters, lenient) ==
  LET order == buildLinearOrder(n, lenient)
      applied == SmartLoop(order.fontTree, 1, characters, 0,
                           Retyped(characters, FallbackFont).fonts, <<>>)
  IN IF order.threw
     THEN [threw |-> TRUE, node |-> n, rangeTree |-> <<>>, assigned |-> <<>>]
     ELSE [threw |-> FALSE, node |-> TextNode(characters, applied.fonts),
           rangeTree |-> order.fontTree, assigned |-> applied.assigned]

(***************************************************************************)
(* setCharactersWithStrictMatchFont(node, characters, fallbackFont)        *)
(***************************************************************************)
\* while (i < node.characters.length) { i++; ... break when the font of
\* character i - 1 differs }: the value of i after the loop
RECURSIVE StrictInner(_, _, _)
StrictInner(n, startCharFontVal, i) ==
  IF i < Len(n.characters)
  THEN IF startCharFontVal # getRangeFontName(n, i, i + 1) THEN i + 1
       ELSE StrictInner(n, startCharFontVal, i + 1)
  ELSE i

\* for (let i = 1; i < node.characters.length; i++): fontHashTree, as the
\* list of its ranges in insertion order
RECURSIVE StrictOuter(_, _, _)
StrictOuter(n, i, fontHashTree) ==
  IF i < Len(n.characters)
  THEN LET startIdx == i - 1
           startCharFontVal == getRangeFontName(n, startIdx, i)
           end == StrictInner(n, startCharFontVal, i)
       IN StrictOuter(n, end + 1,
                      Append(fontHashTree, [start |-> startIdx, end |-> end,
                                            font |-> startCharFontVal]))
  ELSE fontHashTree

RECURSIVE StrictApply(_, _, _)
StrictApply(fontHashTree, k, fonts) ==
  IF k > Len(fontHashTree) THEN fonts
  ELSE StrictApply(fontHashTree, k + 1,
                   setRangeFontName(fonts, fontHashTree[k].start, fontHashTree[k].end,
                                    fontHashTree[k].font))

setCharactersWithStrictMatchFont(n, characters) ==
  LET fontHashTree == StrictOuter(n, 1, <<>>)
      rejected == \E k \in 1..Len(fontHashTree) : fontHashTree[k].end > Len(characters)
  IN [threw |-> rejected,
      fontHashTree |-> fontHashTree,
      node |-> TextNode(characters,
                 IF rejected THEN Retyped(characters, FallbackFont).fonts
                 ELSE StrictApply(fontHashTree, 1, Retyped(characters, FallbackFont).fonts))]

(***************************************************************************)
(* setCharacters(node, characters, {smartStrategy: "prevail"})             *)
(***************************************************************************)
\* fontHashTree as the list of its entries in insertion order
RECURSIVE PrevailTally(_, _, _)
PrevailTally(n, i, fontHashTree) ==
  IF i < Len(n.characters)
  THEN LET key == getRangeFontName(n, i - 1, i)
           known == \E k \in 1..Len(fontHashTree) : fontHashTree[k].key = key
       IN PrevailTally(n, i + 1,
            IF known
            THEN [k \in 1..Len(fontHashTree) |->
                    IF fontHashTree[k].key = key
                    THEN [fontHashTree[k] EXCEPT !.count = @ + 1] ELSE fontHashTree[k]]
            ELSE Append(fontHashTree, [key |-> key, count |-> 1]))
  ELSE fontHashTree

\* Object.entries(fontHashTree).sort((a, b) => b[1] - a[1])[0]: the first
\* entry of the largest count
Prevailed(fontHashTree) ==
  LET best == CHOOSE k \in 1..Len(fontHashTree) :
                /\ \A j \in 1..Len(fontHashTree) : fontHashTree[j].count <= fontHashTree[k].count
                /\ \A j \in 1..(k - 1) : fontHashTree[j].count < fontHashTree[k].count
  IN fontHashTree[best].key

\* node.fontName === figma.mixed
IsMixed(n) == Len(n.characters) > 0 /\ getRangeFontName(n, 0, Len(n.characters)) = Mixed

\* the font the node is given before its characters are set; an empty
\* tally makes prevailedTreeItem[0] throw, and the catch falls back
setCharactersPrevail(n, characters) ==
  LET fontHashTree == PrevailTally(n, 1, <<>>)
      font == IF ~IsMixed(n) THEN (IF n.fonts = <<>> THEN FallbackFont ELSE n.fonts[1])
              ELSE IF fontHashTree = <<>> THEN FallbackFont
              ELSE Prevailed(fontHashTree)
  IN [threw |-> FALSE, fontHashTree |-> fontHashTree, font |-> font,
      node |-> Retyped(characters, font)]

(***************************************************************************)
(* The text functions applied to bounded inputs: one pending call per      *)
(* behaviour, drawn with its arguments, and the step that runs it.         *)
(***************************************************************************)
Args(delimiter, startIdx, endIdx, characters, lenient, payload) ==
  [delimiter |-> delimiter, startIdx |-> startIdx, endIdx |-> endIdx,
   characters |-> characters, lenient |-> lenient, payload |-> payload]

NoArgs == Args(NL, 0, 0, <<>>, FALSE, None)

Pending(op, args) == [op |-> op, state |-> "pending", args |-> args, result |-> [none |-> TRUE]]
NoCall == [op |-> "none", state |-> "none", args |-> NoArgs, result |-> [none |-> TRUE]]

Settle(threw, result) ==
  [call EXCEPT !.state = IF threw THEN "threw" ELSE "returned", !.result = result]

\* the text nodes the functions are applied to
InputTexts == TextsUpTo(MaxText) \cup {SampleText}

\* the new characters given for a node: its own, or a short text
NewCharacters(n) == {n.characters} \cup SeqsUpTo(Chars, MaxNew)

\* the payload objects given to sendProgressUpdate, and no payload
Payloads ==
  {None} \cup
  {Some(Payload(cc, tc, cs, None)) :
      cc \in {None, Some(1)}, tc \in {None, Some(Fin(2))}, cs \in {None, Some(Fin(10))}}

CallGetDelimiterPos ==
  /\ call.op = "getDelimiterPos" /\ call.state = "pending"
  /\ call' = Settle(FALSE,
        [indices |-> getDelimiterPos(textNode.characters, call.args.delimiter,
                                     call.args.startIdx, call.args.endIdx)])
  /\ UNCHANGED <<textNode, delays, msg, pc, outbox, events, treeVars, hidden, unloadable,
                 batchVars, scan, annIndex, featureVars>>

CallBuildLinearOrder ==
  /\ call.op = "buildLinearOrder" /\ call.state = "pending"
  /\ LET order == buildLinearOrder(textNode, call.args.lenient)
     IN call' = Settle(order.threw, order)
  /\ UNCHANGED <<textNode, delays, msg, pc, outbox, events, treeVars, hidden, unloadable,
                 batchVars, scan, annIndex, featureVars>>

CallSmartMatch ==
  /\ call.op = "setCharactersWithSmartMatchFont" /\ call.state = "pending"
  /\ LET done == setCharactersWithSmartMatchFont(textNode, call.args.characters,
                                                  call.args.lenient)
     IN /\ call' = Settle(done.threw, [before |-> textNode, rangeTree |-> done.rangeTree,
                                        assigned |-> done.assigned])
        /\ textNode' = done.node
  /\ UNCHANGED <<delays, msg, pc, outbox, events, treeVars, hidden, unloadable,
                 batchVars, scan, annIndex, featureVars>>

CallStrictMatch ==
  /\ call.op = "setCharactersWithStrictMatchFont" /\ call.state = "pending"
  /\ LET done == setCharactersWithStrictMatchFont(textNode, call.args.characters)
     IN /\ call' = Settle(done.threw, [before |-> textNode,
                                        fontHashTree |-> done.fontHashTree])
        /\ textNode' = done.node
  /\ UNCHANGED <<delays, msg, pc, outbox, events, treeVars, hidden, unloadable,
                 batchVars, scan, annIndex, featureVars>>

CallPrevail ==
  /\ call.op = "setCharacters prevail" /\ call.state = "pending"
  /\ LET done == setCharactersPrevail(textNode, call.args.characters)
     IN /\ call' = Settle(done.threw, [before |-> textNode,
                                        fontHashTree |-> done.fontHashTree,
                                        font |-> done.font])
        /\ textNode' = done.node
  /\ UNCHANGED <<delays, msg, pc, outbox, events, treeVars, hidden, unloadable,
                 batchVars, scan, annIndex, featureVars>>

CallSendProgressUpdate ==
  /\ call.op = "sendProgressUpdate" /\ call.state = "pending"
  /\ LET update == sendProgressUpdate(GeneratedId, "scan_text_nodes", "in_progress", 50,
                                      2, 1, call.args.payload)
     IN /\ call' = Settle(FALSE, [update |-> update])
        /\ events' = Post(events, <<update>>)
  /\ UNCHANGED <<textNode, delays, msg, pc, outbox, treeVars, hidden, unloadable,
                 batchVars, scan, annIndex, featureVars>>

(***************************************************************************)
(* A second 'execute-command' served while the first is suspended:         *)
(* figma.ui.onmessage is async, so the event loop runs the handler of      *)
(* another message while scanTextNodes awaits a delay.                     *)
(***************************************************************************)
OtherMsgId == "m2"

\* delete_node {nodeId: n} of the second message, from its lookup to its
\* result, while the chunked scan awaits delay(100), delay(5) or delay(50)
ConcurrentDeleteNode ==
  /\ msg.command = "scan_text_nodes"
  /\ pc \in {"scan_hl", "scan_tick", "scan_pause"}
  /\ alive = Nodes
  /\ \E n \in Nodes \ {"root"} :
       /\ alive' = alive \ Subtree(n)
       /\ outbox' = Append(outbox,
             [type |-> "command-result", id |-> OtherMsgId,
              result |-> Some([id |-> n, name |-> NodeName(n), type |-> NodeType(n)]),
              error |-> None])
  /\ UNCHANGED <<msg, annIndex, pc, events, fills, chars, annotated, hidden, unloadable,
                 batchVars, scan, delays, pureVars, featureVars>>

(***************************************************************************)
(* Specification                                                           *)
(***************************************************************************)
\* the inbound message: one of the messages of one command
IsInbound(m) ==
  \/ m \in DeleteMessages
  \/ m \in TextMessages
  \/ m \in ScanMessages
  \/ m \in AnnotationMessages
  \/ m \in TypesMessages
  \/ m \in SimpleMessages
  \/ m \in InfoMessages
  \/ m \in ExportMessages
  \/ m \in FeaturesMessages

Init ==
  /\ IsInbound(msg)
  /\ pc = "inbox"
  /\ outbox = <<>>
  /\ events = <<>>
  /\ alive = Nodes
  /\ fills = [n \in TextNodes |-> "original"]
  /\ chars = [n \in TextNodes |-> "old"]
  /\ annotated = {}
  /\ hidden \in (IF msg.command \in {"scan_text_nodes", "scan_nodes_by_types"} THEN SUBSET {"t1", "g1", "t2"} ELSE {{}})
  /\ unloadable \in (IF msg.command = "set_multiple_text_contents" THEN SUBSET {"t2"} ELSE {{}})
  /\ commandId = Undef
  /\ chunks = <<>>
  /\ chunkIndex = 0
  /\ items = <<>>
  /\ results = <<>>
  /\ successCount = 0
  /\ failureCount = 0
  /\ scan = ScanLocals(<<>>, NaN)
  /\ annIndex = 0
  /\ delays = 0
  /\ textNode = NoTextNode
  /\ call = NoCall
  /\ frames = <<>>
  /\ selection = <<>>
  /\ received = 0

Next ==
  \/ ExportReceive
  \/ ExportSettled
  \/ ExportReply
  \/ DeleteReceive
  \/ TextReceive
  \/ ChunkHead
  \/ ChunkJoin
  \/ ChunkPause
  \/ ChunkReject
  \/ \E k \in 1..CHUNK_SIZE : DeleteLookupResolved(k)
  \/ \E k \in 1..CHUNK_SIZE : TextLookupResolved(k)
  \/ \E k \in 1..CHUNK_SIZE : TextSetTextSettled(k)
  \/ \E k \in 1..CHUNK_SIZE : TextDelayElapsed(k)
  \/ ScanReceive
  \/ ScanLookupResolved
  \/ ScanLoopHead
  \/ ScanNodeHead
  \/ ScanHighlightElapsed
  \/ ScanTick
  \/ ScanPause
  \/ FindStep
  \/ FindHighlightElapsed
  \/ AnnotationsReceive
  \/ AnnotationHead
  \/ AnnotationLookupResolved
  \/ TypesReceive
  \/ TypesLookupResolved
  \/ DeleteNodeReceive
  \/ DeleteNodeResolved
  \/ UnknownCommand
  \/ GetNodeInfoReceive
  \/ GetNodeInfoResolved
  \/ GetNodesInfoReceive
  \/ GetNodesInfoResolved
  \/ InfoExported
  \/ SetAnnotationReceive
  \/ SetAnnotationResolved
  \/ FeaturesGetSelection
  \/ FeaturesUnknownCommand

Spec == Init /\ [][Next]_vars

\* the same behaviours under fair scheduling of timers and host completions
FairSpec == Spec /\ WF_vars(Next)

\* the text functions on their own: no command is in flight
PureInit ==
  /\ msg = ExecuteCommand("set_text_content", FALSE, NoParams)
  /\ pc = "idle"
  /\ outbox = <<>>
  /\ events = <<>>
  /\ alive = Nodes
  /\ fills = [n \in TextNodes |-> "original"]
  /\ chars = [n \in TextNodes |-> "old"]
  /\ annotated = {}
  /\ hidden = {}
  /\ unloadable = {}
  /\ commandId = Undef
  /\ chunks = <<>>
  /\ chunkIndex = 0
  /\ items = <<>>
  /\ results = <<>>
  /\ successCount = 0
  /\ failureCount = 0
  /\ scan = ScanLocals(<<>>, NaN)
  /\ annIndex = 0
  /\ delays = 0
  /\ frames = <<>>
  /\ selection = <<>>
  /\ received = 0
  /\ \/ /\ textNode \in InputTexts
        /\ \/ \E d \in {SP, NL}, e \in 0..Len(textNode.characters) : \E s \in 0..e :
                call = Pending("getDelimiterPos", Args(d, s, e, <<>>, FALSE, None))
           \/ \E lenient \in BOOLEAN :
                call = Pending("buildLinearOrder", Args(NL, 0, 0, <<>>, lenient, None))
           \/ \E cs \in NewCharacters(textNode), lenient \in BOOLEAN :
                call = Pending("setCharactersWithSmartMatchFont",
                               Args(NL, 0, 0, cs, lenient, None))
           \/ \E cs \in NewCharacters(textNode) :
                call = Pending("setCharactersWithStrictMatchFont",
                               Args(NL, 0, 0, cs, FALSE, None))
           \/ \E cs \in NewCharacters(textNode) :
                call = Pending("setCharacters prevail", Args(NL, 0, 0, cs, FALSE, None))
     \/ /\ textNode = NoTextNode
        /\ \E payload \in Payloads :
             call = Pending("sendProgressUpdate", Args(NL, 0, 0, <<>>, FALSE, payload))

PureNext ==
  \/ CallGetDelimiterPos
  \/ CallBuildLinearOrder
  \/ CallSmartMatch
  \/ CallStrictMatch
  \/ CallPrevail
  \/ CallSendProgressUpdate

PureSpec == PureInit /\ [][PureNext]_vars

\* a chunked scan_text_nodes with a delete_node served in between
ConcurrentInit ==
  /\ Init
  /\ msg.command = "scan_text_nodes" /\ msg.hasParams /\ msg.params.useChunking

ConcurrentNext ==
  \/ ScanReceive
  \/ ScanLookupResolved
  \/ ScanLoopHead
  \/ ScanNodeHead
  \/ ScanHighlightElapsed
  \/ ScanTick
  \/ ScanPause
  \/ ConcurrentDeleteNode

ConcurrentSpec == ConcurrentInit /\ [][ConcurrentNext]_vars

(***************************************************************************)
(* The features plugin (figma-plugin-features/src/code.ts): the            *)
(* 'generate-tiles' and 'convert-to-frame' messages of figma.ui.onmessage  *)
(***************************************************************************)
MaxRows == 2
MaxColumns == 2
MaxMessages == 2

\* the tile width the UI sends by default, and one that resize rejects
TileSizes == {0, 100}

TileMessage(id, tileWidth, columns, rows) ==
  [type |-> "generate-tiles", id |-> id, tileWidth |-> tileWidth, tileHeight |-> 100,
   columns |-> columns, rows |-> rows, spacing |-> 10, plugin |-> FeaturesPlugin]

ConvertMessage(id) ==
  [type |-> "convert-to-frame", id |-> id, tileWidth |-> 0, tileHeight |-> 0,
   columns |-> 0, rows |-> 0, spacing |-> 0, plugin |-> FeaturesPlugin]

FeatureMessages(id) ==
  {TileMessage(id, w, c, r) : w \in TileSizes, c \in -1..MaxColumns, r \in -1..MaxRows}
  \cup {ConvertMessage(id)}

\* the ids of the inbound messages, in the order of their arrival
FeatureMsgIds == <<MsgId, OtherMsgId, "m3", "m4">>

\* the ids the host gives to the frames it creates
FrameIds == <<"frame1", "frame2", "frame3", "frame4">>

Frame(id, name, children) == [id |-> id, name |-> name, children |-> children]

TilesCreated(success, error) ==
  [type |-> "tiles-created", id |-> msg.id, success |-> success, error |-> error]
FrameConverted(success, error) ==
  [type |-> "frame-converted", id |-> msg.id, success |-> success, error |-> error]

\* the loop appending the tiles of the first row only
TilesOfFirstRow(rows, columns) ==
  IF rows <= 0 \/ columns <= 0 THEN <<>>
  ELSE [k \in 1..columns |-> <<"Tile", 1, k>>]

\* for (row = 0; row < rows; row++) for (col = 0; col < columns; col++):
\* the tiles `Tile ${row + 1}-${col + 1}` in the order they are appended
TilesOf(rows, columns) ==
  IF rows <= 0 \/ columns <= 0 THEN <<>>
  ELSE [k \in 1..(rows * columns) |->
          <<"Tile", ((k - 1) \div columns) + 1, ((k - 1) % columns) + 1>>]

\* if (msg.type === 'generate-tiles'): the handler has no await; what
\* tile.resize does with a size below its minimum is the host's choice, and a
\* throw leaves the frame created so far in the document
GenerateTiles ==
  /\ pc = "inbox"
  /\ msg.type = "generate-tiles"
  /\ \E rejects \in (IF msg.tileWidth < 1 THEN BOOLEAN ELSE {FALSE}) :
       LET tiles == TilesOf(msg.rows, msg.columns)
           threw == rejects /\ tiles # <<>>
           id == FrameIds[Len(frames) + 1]
       IN IF threw
          THEN /\ frames' = Append(frames, Frame(id, "Tile Grid", <<>>))
               /\ outbox' = Append(outbox, TilesCreated(FALSE, Some(<<"resize">>)))
               /\ UNCHANGED selection
          ELSE /\ frames' = Append(frames, Frame(id, "Tile Grid", tiles))
               /\ selection' = <<id>>
               /\ outbox' = Append(outbox, TilesCreated(TRUE, None))
  /\ pc' = "done"
  /\ UNCHANGED <<msg, annIndex, events, treeVars, hidden, unloadable, batchVars, scan>>
  /\ UNCHANGED <<delays, pureVars, received>>

\* else if (msg.type === 'convert-to-frame'): node.absoluteBoundingBox is
\* the host's to give or not
ConvertToFrame ==
  /\ pc = "inbox"
  /\ msg.type = "convert-to-frame"
  /\ IF selection = <<>>
     THEN /\ outbox' = Append(outbox,
                FrameConverted(FALSE, Some(<<"Please select an element first">>)))
          /\ UNCHANGED <<frames, selection>>
     ELSE \E originalBounds \in BOOLEAN :
            IF ~originalBounds
            THEN /\ outbox' = Append(outbox,
                       FrameConverted(FALSE, Some(<<"Unable to get bounds of selection">>)))
                 /\ UNCHANGED <<frames, selection>>
            ELSE LET id == FrameIds[Len(frames) + 1]
                 IN /\ frames' = Append(frames,
                                        Frame(id, "Auto Layout Frame", <<selection[1]>>))
                    /\ selection' = <<id>>
                    /\ outbox' = Append(outbox, FrameConverted(TRUE, None))
  /\ pc' = "done"
  /\ UNCHANGED <<msg, annIndex, events, treeVars, hidden, unloadable, batchVars, scan>>
  /\ UNCHANGED <<delays, pureVars, received>>

\* the UI posts the next message once the handler of the last one is done
FeatureDeliver ==
  /\ pc = "done"
  /\ received < MaxMessages
  /\ received' = received + 1
  /\ msg' \in FeatureMessages(FeatureMsgIds[received + 1])
  /\ pc' = "inbox"
  /\ UNCHANGED <<annIndex, outbox, events, treeVars, hidden, unloadable, batchVars, scan>>
  /\ UNCHANGED <<delays, pureVars, frames, selection>>

FeaturesInit ==
  /\ msg \in FeatureMessages(FeatureMsgIds[1])
  /\ pc = "inbox"
  /\ outbox = <<>>
  /\ events = <<>>
  /\ alive = Nodes
  /\ fills = [n \in TextNodes |-> "original"]
  /\ chars = [n \in TextNodes |-> "old"]
  /\ annotated = {}
  /\ hidden = {}
  /\ unloadable = {}
  /\ commandId = Undef
  /\ chunks = <<>>
  /\ chunkIndex = 0
  /\ items = <<>>
  /\ results = <<>>
  /\ successCount = 0
  /\ failureCount = 0
  /\ scan = ScanLocals(<<>>, NaN)
  /\ annIndex = 0
  /\ delays = 0
  /\ textNode = NoTextNode
  /\ call = NoCall
  /\ frames = <<>>
  /\ selection \in {<<>>, <<"t1">>}
  /\ received = 1

FeaturesNext ==
  \/ GenerateTiles
  \/ ConvertToFrame
  \/ FeatureDeliver

FeaturesSpec == FeaturesInit /\ [][FeaturesNext]_vars

(***************************************************************************)
(* Vocabulary of the properties                                            *)
(***************************************************************************)
Ceil(n, c) == IF n % c = 0 THEN n \div c ELSE (n \div c) + 1


BatchCommands == {"set_multiple_text_contents", "delete_multiple_nodes"}
InputItems == Val(msg.params.list)
Terminal(e) == e.status \in {"completed", "error"}
CountEvents(p(_)) == Cardinality({k \in 1..Len(events) : p(events[k])})
Finished == pc = "done"
HasResult == Finished /\ Len(outbox) = 1 /\ outbox[1].type = "command-result"
HasError == Finished /\ Len(outbox) = 1 /\ outbox[1].type = "command-error"
\* the batch ran: its parameters passed validation and the list was chunked
BatchStarted == msg.command \in BatchCommands /\ commandId # Undef
ChunkedScan ==
  msg.command = "scan_text_nodes" /\ msg.hasParams /\ msg.params.useChunking

(***************************************************************************)
(* C1: the items of a batch command are split into exactly ceil(N/C)       *)
(* chunks, every chunk but possibly the last has exactly C items, and the  *)
(* chunks in order give back the list (C > 0).  For the batch commands     *)
(* this is said of `chunks`; for the chunked scan, whose chunks are the    *)
(* slices of the loop, of each slice and of the final counters.            *)
(***************************************************************************)
ExpectedChunk(list, k, c) ==
  [n \in 1..(Min(k * c, Len(list)) - (k - 1) * c) |-> list[(k - 1) * c + n]]

C1_Partition ==
  /\ BatchStarted =>
       /\ Len(chunks) = Ceil(Len(InputItems), CHUNK_SIZE)
       /\ \A k \in 1..Len(chunks) :
            /\ k < Len(chunks) => Len(chunks[k]) = CHUNK_SIZE
            /\ Len(chunks[k]) \in 1..CHUNK_SIZE
       /\ Flatten(chunks) = InputItems
  /\ (ChunkedScan /\ ChunkSizeOf(msg) > 0) =>
       /\ pc \in {"node_head", "scan_hl", "scan_tick"} =>
            scan.chunkNodes =
              ExpectedChunk(scan.nodesToProcess, scan.chunksProcessed + 1, ChunkSizeOf(msg))
       /\ HasResult =>
            /\ scan.chunksProcessed = Ceil(Len(scan.nodesToProcess), ChunkSizeOf(msg))
            /\ scan.processedNodes = Len(scan.nodesToProcess)

\* a batch of more than CHUNK_SIZE items has run to the end in two chunks,
\* the last one shorter
C1_Witness ==
  /\ BatchStarted /\ HasResult
  /\ Len(chunks) = 2 /\ Len(chunks[2]) < CHUNK_SIZE
  /\ Len(results) = Len(InputItems)

(***************************************************************************)
(* C2: when a batch command reaches "completed", successCount +            *)
(* failureCount is the number of input items, the results list has that    *)
(* many entries and processedItems of the "completed" event equals         *)
(* totalItems; likewise for the summary set_multiple_annotations returns.  *)
(***************************************************************************)
CountsAddUp(r, n) ==
  /\ r.succeeded + r.failed = n
  /\ r.total = n
  /\ Len(r.results) = n
  /\ r.succeeded = Tally(r.results, IsSuccess)
  /\ r.failed = Tally(r.results, IsFailure)

C2_CountsAddUp ==
  /\ \A k \in 1..Len(events) :
       (events[k].status = "completed" /\ events[k].commandType \in BatchCommands) =>
          /\ events[k].totalItems = Len(InputItems)
          /\ events[k].processedItems = events[k].totalItems
          /\ Len(Val(Val(events[k].payload).data)) = Len(InputItems)
          /\ successCount + failureCount = Len(InputItems)
  /\ (HasResult /\ msg.command \in BatchCommands) =>
        CountsAddUp(Val(outbox[1].result), Len(InputItems))
  /\ (HasResult /\ msg.command = "set_multiple_annotations" /\ annIndex > 0) =>
        CountsAddUp(Val(outbox[1].result), Len(InputItems))

\* a two-chunk batch completed with successes and failures
C2_Witness ==
  /\ HasResult /\ msg.command \in BatchCommands
  /\ CountEvents(LAMBDA e : e.status = "completed") = 1
  /\ Len(chunks) = 2
  /\ successCount > 0 /\ failureCount > 0

(***************************************************************************)
(* C3: the progress events of one command start with the single "started"  *)
(* event, contain exactly one terminal event ("completed" or "error"),     *)
(* which is the last one, and only "in_progress" events in between, on     *)
(* every path of the three commands that report progress.                  *)
(***************************************************************************)
C3_EventProtocol ==
  /\ Len(events) > 0 => events[1].status = "started"
  /\ CountEvents(LAMBDA e : e.status = "started") <= 1
  /\ \A k \in 1..Len(events) : Terminal(events[k]) => k = Len(events)
  /\ \A k \in 2..(Len(events) - 1) : events[k].status = "in_progress"
  /\ (Finished /\ Len(events) > 0) => Terminal(events[Len(events)])

(***************************************************************************)
(* C4: the progress value never decreases from one event to the next, the  *)
(* "started" event carries 0, the terminal event carries exactly 100, and  *)
(* processedItems never decreases.                                         *)
(***************************************************************************)
C4_ProgressMonotone ==
  /\ \A k \in 1..(Len(events) - 1) :
       /\ events[k].progress <= events[k + 1].progress
       /\ events[k].processedItems <= events[k + 1].processedItems
  /\ \A k \in 1..Len(events) :
       /\ events[k].status = "started" => events[k].progress = 0
       /\ Terminal(events[k]) => events[k].progress = 100

(***************************************************************************)
(* C5: an inbound 'execute-command' message of the plugin (code.js) gets    *)
(* one outcome message and never a second one; the outcome carries the     *)
(* inbound id; it is 'command-error', with the thrown message as its       *)
(* error, when the handler threw, and 'command-result' when the handler    *)
(* returned: a handler that threw sent no "completed" event and one that   *)
(* returned sent no "error".                                               *)
(***************************************************************************)
C5_OneOutcome ==
  /\ Len(outbox) <= 1
  /\ msg.plugin = MainPlugin => (Finished <=> Len(outbox) = 1)
  /\ \A k \in 1..Len(outbox) :
       /\ outbox[k].id = msg.id
       /\ outbox[k].type \in {"command-result", "command-error"}
       /\ outbox[k].type = "command-error" =>
            /\ outbox[k].error # None /\ outbox[k].error # <<"">>
            /\ outbox[k].result = None
            /\ CountEvents(LAMBDA e : e.status = "completed") = 0
       /\ outbox[k].type = "command-result" =>
            /\ outbox[k].error = None
            /\ outbox[k].result # None
            /\ CountEvents(LAMBDA e : e.status = "error") = 0

\* the handler threw out of a chunk whose other items are still in flight,
\* and one of them has gone on to change the document
C5_Witness ==
  /\ HasError
  /\ msg.command = "set_multiple_text_contents"
  /\ \E k \in 1..Len(items) : items[k].pc = "delay"

(***************************************************************************)
(* C6: every command dispatched by handleCommand (code.js) eventually      *)
(* posts its outcome message, for every parameter value, a chunkSize of 0  *)
(* or below included.                                                      *)
(***************************************************************************)
C6_EventuallyOutcome == msg.plugin = MainPlugin => <>(Len(outbox) = 1)

(***************************************************************************)
(* C7: in set_multiple_text_contents and delete_multiple_nodes a failing    *)
(* item (a null entry included) never aborts the command: once the command *)
(* is over it has returned, with one result per input item and with the    *)
(* "completed" event sent.                                                 *)
(***************************************************************************)
C7_FailureNeverAborts ==
  (BatchStarted /\ Finished) =>
     /\ HasResult
     /\ Len(results) = Len(InputItems)
     /\ CountEvents(LAMBDA e : e.status = "completed") = 1

(***************************************************************************)
(* C8: the success flag of a batch is true exactly when at least one item  *)
(* succeeded, and a batch in which every item fails still resolves as a    *)
(* 'command-result' with success false and the full results list.          *)
(***************************************************************************)
BatchRan ==
  \/ BatchStarted
  \/ /\ msg.command = "set_multiple_annotations" /\ msg.hasParams
     /\ IsSome(msg.params.list) /\ InputItems # <<>>

C8_SuccessFlag ==
  (BatchRan /\ Finished) =>
     /\ HasResult
     /\ Val(outbox[1].result).success = (Tally(Val(outbox[1].result).results, IsSuccess) > 0)
     /\ Len(Val(outbox[1].result).results) = Len(InputItems)

(***************************************************************************)
(* C9: the results of set_multiple_text_contents and delete_multiple_nodes *)
(* are in input order, inside each chunk and across chunk boundaries,      *)
(* whatever the order in which the items of a chunk complete: the i-th     *)
(* result names the i-th input item's node id, or "unknown" when that item *)
(* carries no nodeId.                                                      *)
(***************************************************************************)
\* the id the i-th input item is given: the id itself for a deletion, the
\* entry's nodeId for a replacement
InputId(entry) ==
  IF msg.command = "delete_multiple_nodes" THEN entry ELSE entry.nodeId

ReportedId(entry) == IF InputId(entry) = Undef THEN "unknown" ELSE InputId(entry)

C9_ResultsInInputOrder ==
  BatchStarted =>
     /\ Len(results) <= Len(InputItems)
     /\ \A i \in 1..Len(results) : results[i].nodeId = ReportedId(InputItems[i])
     /\ HasResult =>
          /\ Val(outbox[1].result).results = results
          /\ Len(results) = Len(InputItems)

\* the statement without the "unknown" case
C9_Original ==
  (BatchStarted /\ HasResult) =>
     /\ Len(Val(outbox[1].result).results) = Len(InputItems)
     /\ \A i \in 1..Len(InputItems) :
          Val(outbox[1].result).results[i].nodeId = InputId(InputItems[i])

\* a returned list of two chunks whose second item, having no nodeId, was
\* settled before the first item came back from its lookup and its write
C9_Witness ==
  /\ HasResult
  /\ msg.command = "set_multiple_text_contents"
  /\ Len(results) > CHUNK_SIZE
  /\ results[1].success
  /\ InputItems[2].nodeId = Undef
  /\ results[2].nodeId = "unknown"

(***************************************************************************)
(* C10: the chunks of a batch command run strictly in list order: while    *)
(* the items of a chunk are being processed, every earlier chunk has       *)
(* finished, its results are appended and its after-chunk event is sent,   *)
(* and no item of a later chunk has started.                               *)
(***************************************************************************)
BeforeChunkEvent(e) == IsSome(e.currentChunk) /\ ~IsSome(Val(e.payload).data)
AfterChunkEvent(e) == IsSome(e.currentChunk) /\ IsSome(Val(e.payload).data)
InFlight == \E k \in 1..Len(items) : ~Settled(items[k])

C10_ChunksInOrder ==
  (BatchStarted /\ (pc = "chunk_wait" \/ InFlight)) =>
     /\ chunkIndex < Len(chunks)
     /\ [k \in 1..Len(items) |-> items[k].entry] = chunks[chunkIndex + 1]
     /\ Len(results) = chunkIndex * CHUNK_SIZE
     /\ CountEvents(AfterChunkEvent) = chunkIndex
     /\ CountEvents(BeforeChunkEvent) = chunkIndex + 1
     /\ \A k \in 1..Len(events) :
          IsSome(events[k].currentChunk) => Val(events[k].currentChunk) <= chunkIndex + 1

\* the second chunk is being processed
C10_Witness ==
  /\ BatchStarted
  /\ chunkIndex = 1
  /\ pc = "chunk_wait"
  /\ items[1].pc = "lookup"
  /\ Len(results) = CHUNK_SIZE

(***************************************************************************)
(* C11: delete_multiple_nodes over n ids returns n result entries, in      *)
(* input order; an entry fails exactly when its id did not resolve (the    *)
(* error then names the id) or the removal of the resolved node threw (the *)
(* error is then the thrown message); nodesDeleted counts the successes,   *)
(* nodesDeleted + nodesFailed = n, and success is nodesDeleted > 0.  For   *)
(* ids that are pairwise distinct and not nested in one another an entry   *)
(* fails exactly when its id names no node of the document.                *)
(***************************************************************************)
DeleteReturned == msg.command = "delete_multiple_nodes" /\ HasResult
NotFoundError(id) == <<"Node not found", id>>

\* no id of the list occurs twice or lies below another id of the list
Independent(ids) ==
  \A i, j \in 1..Len(ids) : i # j => ids[i] \notin Subtree(ids[j])

C11_DeleteResults ==
  DeleteReturned =>
    LET r == Val(outbox[1].result)
        ids == InputItems
    IN /\ Len(r.results) = Len(ids)
       /\ r.succeeded = Tally(r.results, IsSuccess)
       /\ r.succeeded + r.failed = Len(ids)
       /\ r.success = (r.succeeded > 0)
       /\ \A i \in 1..Len(ids) :
            /\ r.results[i].nodeId = ids[i]
            /\ r.results[i].success => ids[i] \in Nodes \ alive
            /\ ~r.results[i].success =>
                  r.results[i].error \in {NotFoundError(ids[i]), <<"host error">>}
            /\ ids[i] \notin Nodes =>
                  ~r.results[i].success /\ r.results[i].error = NotFoundError(ids[i])
            /\ Independent(ids) => (r.results[i].success <=> ids[i] \in Nodes)

\* the statement with the unresolved id as the only cause of a failure
C11_Original ==
  DeleteReturned =>
    LET r == Val(outbox[1].result)
    IN /\ Len(r.results) = Len(InputItems)
       /\ r.succeeded + r.failed = Len(InputItems)
       /\ r.success = (r.succeeded > 0)
       /\ \A i \in 1..Len(InputItems) :
            ~r.results[i].success => r.results[i].error = NotFoundError(InputItems[i])

\* two distinct ids of which only the second names no node: one failure
\* citing that id, one deletion, success
C11_Witness ==
  /\ DeleteReturned
  /\ InputItems = <<"t1", Ghost>>
  /\ Val(outbox[1].result).succeeded = 1
  /\ Val(outbox[1].result).failed = 1
  /\ Val(outbox[1].result).results[2].error = NotFoundError(Ghost)
  /\ Val(outbox[1].result).success
  /\ "t1" \notin alive

(***************************************************************************)
(* C12: a chunked scan_text_nodes over N collected nodes with chunk size C *)
(* sends, for the chunks k = 1, 2, ... in increasing order, one            *)
(* "in_progress" event before and one after the chunk, both with the       *)
(* top-level currentChunk = k and totalChunks = ceil(N/C); a scan that     *)
(* completes has sent them for exactly the chunks 1..ceil(N/C), chunk k    *)
(* ending with min(k*C, N) nodes processed, and the textNodes of its       *)
(* "completed" event are the collected nodes of type TEXT.                 *)
(***************************************************************************)
ScanRan == ChunkedScan /\ pc \notin {"inbox", "scan_lookup"} /\ ~HasError
ChunkEvents == SelectSeq(events, LAMBDA e : IsSome(e.currentChunk))
CollectedText ==
  SelectSeq(scan.nodesToProcess, LAMBDA d : NodeType(d.node) = "TEXT")

C12_ScanChunkEvents ==
  ScanRan =>
    LET N == Len(scan.nodesToProcess)
        C == ChunkSizeOf(msg)
    IN /\ C > 0 => scan.totalChunks = Fin(Ceil(N, C))
       /\ \A j \in 1..Len(ChunkEvents) :
            /\ ChunkEvents[j].status = "in_progress"
            /\ ChunkEvents[j].currentChunk = Some((j + 1) \div 2)
            /\ ChunkEvents[j].totalChunks = Some(scan.totalChunks)
            /\ IF j % 2 = 1 THEN BeforeChunkEvent(ChunkEvents[j])
                             ELSE AfterChunkEvent(ChunkEvents[j])
            /\ (C > 0 /\ j % 2 = 0) =>
                  ChunkEvents[j].processedItems = Min((j \div 2) * C, N)
       /\ HasResult =>
            /\ N > 0 => C > 0
            /\ Len(ChunkEvents) = IF N = 0 THEN 0 ELSE 2 * Ceil(N, C)
            /\ events[Len(events)].status = "completed"
            /\ Len(Val(Val(events[Len(events)].payload).data)) = Len(CollectedText)
            /\ \A k \in 1..Len(CollectedText) :
                 Val(Val(events[Len(events)].payload).data)[k].id = CollectedText[k].node

\* five collected nodes in chunks of 2, 2 and 1, two of them text nodes
C12_Witness ==
  /\ ScanRan /\ HasResult
  /\ Len(scan.nodesToProcess) = 5
  /\ ChunkSizeOf(msg) = 2
  /\ Len(ChunkEvents) = 6
  /\ ChunkEvents[6].currentChunk = Some(3)
  /\ ChunkEvents[6].totalChunks = Some(Fin(3))
  /\ Len(Val(Val(events[Len(events)].payload).data)) = 2

(***************************************************************************)
(* C13: in every chunked batch command the progress is 5 on the event sent *)
(* after collection / planning, round(5 + 90 * k / totalChunks) on the     *)
(* events sent with k chunks processed, hence within 5..95 and 95 after    *)
(* the last chunk, and 100 on the "completed" event.                       *)
(***************************************************************************)
\* round(5 + 90 * k / n) for n > 0, halves rounded up
RoundedProgress(k, n) == (2 * (5 * n + 90 * k) + n) \div (2 * n)

ChunkedCommandRan == (BatchStarted \/ ScanRan) /\ Len(events) >= 2

C13_ProgressFormula ==
  ChunkedCommandRan =>
    /\ events[2].status = "in_progress" /\ events[2].progress = 5
    /\ \A j \in 1..Len(ChunkEvents) :
         /\ ChunkEvents[j].progress \in 5..95
         /\ (Val(ChunkEvents[j].totalChunks)[1] = "fin"
               /\ Val(ChunkEvents[j].totalChunks)[2] > 0) =>
               /\ ChunkEvents[j].progress =
                     RoundedProgress(j \div 2, Val(ChunkEvents[j].totalChunks)[2])
               /\ j = 2 * Val(ChunkEvents[j].totalChunks)[2] => ChunkEvents[j].progress = 95
    /\ \A k \in 1..Len(events) : events[k].status = "completed" => events[k].progress = 100

\* the same for the runs whose chunk size is positive
C13_PositiveChunkSize ==
  (ScanRan /\ ChunkSizeOf(msg) <= 0) \/ C13_ProgressFormula

(***************************************************************************)
(* C14: collectNodesToProcess, findTextNodes and findNodesByTypes yield    *)
(* nothing for a node whose visible flag is false nor for any descendant   *)
(* of such a node, whatever the visibility of the descendants; a root      *)
(* whose visible flag is false yields an empty list.                       *)
(***************************************************************************)
Parent(n) == CHOOSE p \in Nodes : InList(n, NodeChildren(p))

\* n lies in the tree under root and no node from root down to n is hidden
RECURSIVE Shown(_, _)
Shown(n, root) ==
  /\ n \notin hidden
  /\ n = root \/ (n # "root" /\ Shown(Parent(n), root))

UnchunkedScan ==
  /\ msg.command = "scan_text_nodes" /\ msg.hasParams /\ ~msg.params.useChunking
  /\ pc \notin {"inbox", "scan_lookup"} /\ ~HasError
TypesReturned == msg.command = "scan_nodes_by_types" /\ HasResult

C14_HiddenSubtreesSkipped ==
  /\ ScanRan =>
       /\ \A k \in 1..Len(scan.nodesToProcess) :
            Shown(scan.nodesToProcess[k].node, msg.params.nodeId)
       /\ msg.params.nodeId \in hidden => scan.nodesToProcess = <<>>
  /\ UnchunkedScan =>
       /\ \A k \in 1..Len(scan.allTextNodes) :
            Shown(scan.allTextNodes[k].id, msg.params.nodeId)
       /\ IsSome(scan.cur) => Shown(Val(scan.cur).id, msg.params.nodeId)
       /\ msg.params.nodeId \in hidden => scan.allTextNodes = <<>>
  /\ TypesReturned =>
       LET found == Val(outbox[1].result).matchingNodes
       IN /\ \A k \in 1..Len(found) : Shown(found[k].id, msg.params.nodeId)
          /\ msg.params.nodeId \in hidden => found = <<>>

\* a scan from the root frame with the group hidden and the text node
\* inside the group visible: the group's subtree is left out
C14_Witness ==
  /\ ScanRan /\ HasResult
  /\ msg.params.nodeId = "root"
  /\ hidden = {"g1"}
  /\ [k \in 1..Len(scan.nodesToProcess) |-> scan.nodesToProcess[k].node] = <<"root", "t1">>

(***************************************************************************)
(* C15: collectNodesToProcess lists the visible nodes in depth-first       *)
(* pre-order (a node before its children, children in sibling order); a    *)
(* descriptor's path is its parent's path followed by the node's name, or  *)
(* "Unnamed <type>" for an empty name; the root's path is that single      *)
(* element; the depth is the length of the path minus one.                 *)
(***************************************************************************)
RECURSIVE PathOf(_, _)
PathOf(n, root) ==
  IF n = root THEN <<NodeLabel(n)>> ELSE Append(PathOf(Parent(n), root), NodeLabel(n))

PositionIn(x, s) == CHOOSE k \in 1..Len(s) : s[k] = x

C15_PreOrder ==
  ScanRan =>
    LET root == msg.params.nodeId
        ds == scan.nodesToProcess
        at(k) == ds[k].node
    IN /\ {at(k) : k \in 1..Len(ds)} = {n \in Nodes : Shown(n, root)}
       /\ \A i, j \in 1..Len(ds) : i # j => at(i) # at(j)
       /\ \A k \in 1..Len(ds) :
            /\ ds[k].parentPath = PathOf(at(k), root)
            /\ ds[k].depth = Len(ds[k].parentPath) - 1
            /\ at(k) = root <=> k = 1
            /\ at(k) # root => \E i \in 1..(k - 1) : at(i) = Parent(at(k))
       /\ \A i, j \in 1..Len(ds) :
            \* siblings in the order of their parent's children
            /\ (i < j /\ at(i) # root /\ at(j) # root /\ Parent(at(i)) = Parent(at(j))) =>
                  PositionIn(at(i), NodeChildren(Parent(at(i))))
                    < PositionIn(at(j), NodeChildren(Parent(at(i))))
            \* the nodes below a node follow it without a gap
            /\ (i < j /\ at(j) \notin Subtree(at(i))) =>
                  \A m \in j..Len(ds) : at(m) \notin Subtree(at(i))

\* the whole tree, visible: five descriptors, the unnamed rectangle last
C15_Witness ==
  /\ ScanRan
  /\ hidden = {}
  /\ Len(scan.nodesToProcess) = 5
  /\ scan.nodesToProcess[5] =
       Descriptor("r1", <<"root", "g1", "Unnamed RECTANGLE">>, 2)
  /\ scan.nodesToProcess[3].node = "g1"

ScanCommands == {"scan_text_nodes", "scan_nodes_by_types"}
RootUnresolved ==
  msg.command \in ScanCommands /\ msg.hasParams /\ msg.params.nodeId \notin Nodes
TypesGiven == IsSome(msg.params.list) /\ Val(msg.params.list) # <<>>
Untouched ==
  /\ alive = Nodes
  /\ fills = [n \in TextNodes |-> "original"]
  /\ chars = [n \in TextNodes |-> "old"]
  /\ annotated = {}
  /\ scan.nodesToProcess = <<>> /\ scan.allTextNodes = <<>> /\ scan.stack = <<>>
NotFoundOutcome ==
  /\ HasError
  /\ outbox[1].error = ErrorField(<<"Node with ID not found", msg.params.nodeId>>)
  /\ outbox[1].id = msg.id

C17_RootNotFound ==
  RootUnresolved =>
    /\ Untouched
    /\ CountEvents(LAMBDA e : e.status = "completed") = 0
    /\ ~HasResult
    /\ (Finished /\ (msg.command = "scan_nodes_by_types" => TypesGiven)) => NotFoundOutcome
    /\ (Finished /\ msg.command = "scan_nodes_by_types" /\ ~TypesGiven) =>
          HasError /\ outbox[1].error = ErrorField(<<"No types specified to search for">>)

\* the statement for every request that names an unresolvable root
C17_Original ==
  (RootUnresolved /\ Finished) =>
    /\ NotFoundOutcome
    /\ Untouched
    /\ CountEvents(LAMBDA e : e.status = "completed") = 0

\* scan_nodes_by_types with types and a root id of no node has failed
C17_Witness ==
  /\ msg.command = "scan_nodes_by_types"
  /\ RootUnresolved /\ TypesGiven
  /\ NotFoundOutcome
  /\ events = <<>>

(***************************************************************************)
(* C18: an 'execute-command' message whose command is not in the routing   *)
(* table fails with an 'Unknown command' error posted as a 'command-error' *)
(* that carries the inbound id, in both plugins, and the tree is not       *)
(* changed.                                                                *)
(***************************************************************************)
Unrouted ==
  \/ msg.plugin = MainPlugin /\ msg.command \notin RoutedCommands
  \/ msg.plugin = FeaturesPlugin /\ msg.command \notin FeaturesCommands

C18_UnknownCommand ==
  Unrouted =>
    /\ Untouched
    /\ events = <<>>
    /\ Finished =>
         /\ HasError
         /\ outbox[1].id = msg.id
         /\ outbox[1].error = ErrorField(<<"Unknown command", msg.command>>)

\* the same for the plugin of code.js alone
C18_MainPluginOnly == msg.plugin = MainPlugin => C18_UnknownCommand

(***************************************************************************)
(* C19: a command whose required parameter is missing or malformed fails   *)
(* as a whole, before any node is looked up or changed, and resolves as    *)
(* 'command-error'; this for every command that validates its parameters.  *)
(***************************************************************************)
MissingList == ~msg.hasParams \/ ~IsSome(msg.params.list)
MissingNodeId == ~msg.hasParams \/ msg.params.nodeId = Undef

InvalidRequest ==
  /\ msg.plugin = MainPlugin
  /\ \/ msg.command \in {"get_node_info", "delete_node"} /\ MissingNodeId
     \/ msg.command \in {"get_nodes_info", "delete_multiple_nodes",
                          "set_multiple_annotations", "scan_nodes_by_types"} /\ MissingList
     \/ msg.command \in {"set_multiple_text_contents", "set_annotation"}
          /\ (MissingNodeId \/ MissingList)

C19_ValidationFails ==
  InvalidRequest =>
    /\ pc \in {"inbox", "done"}
    /\ Untouched
    /\ Finished => HasError

\* the same without the two annotation commands
C19_ExceptAnnotations ==
  msg.command \in {"set_annotation", "set_multiple_annotations"} \/ C19_ValidationFails

(***************************************************************************)
(* C20: every progress event of a command carries, as its commandId, the   *)
(* id of the inbound 'execute-command' message, which is the id echoed on  *)
(* the outcome message; all progress events of one command carry the same  *)
(* commandId and the same commandType.                                     *)
(***************************************************************************)
C20_CorrelationId ==
  /\ \A k \in 1..Len(events) : events[k].commandId = msg.id
  /\ \A k \in 1..Len(outbox) : outbox[k].id = msg.id
  /\ \A j, k \in 1..Len(events) :
       /\ events[j].commandId = events[k].commandId
       /\ events[j].commandType = events[k].commandType

\* the part about one commandId and one commandType per command
C20_OneIdPerCommand ==
  \A j, k \in 1..Len(events) :
    /\ events[j].commandId = events[k].commandId
    /\ events[j].commandType = msg.command
    /\ events[j].commandId =
         (IF msg.command \in {"scan_text_nodes", "set_multiple_text_contents"}
             /\ msg.hasParams /\ msg.params.commandId # Undef
          THEN msg.params.commandId ELSE GeneratedId)

(***************************************************************************)
(* C21: sendProgressUpdate copies currentChunk and totalChunks to the top  *)
(* level of the event exactly when the payload defines both; a payload     *)
(* that is given is kept unchanged under the event's payload field; when   *)
(* the payload is absent or lacks either field, the event has no top-level *)
(* currentChunk, totalChunks or chunkSize.                                 *)
(***************************************************************************)
DefinesBoth(payload) ==
  IsSome(payload) /\ IsSome(Val(payload).currentChunk) /\ IsSome(Val(payload).totalChunks)

C21_ChunkFieldsLifted ==
  call.op = "sendProgressUpdate" /\ call.state = "returned" =>
    LET update == call.result.update
        payload == call.args.payload
    IN /\ update.payload = payload
       /\ events = <<update>>
       /\ DefinesBoth(payload) =>
            /\ update.currentChunk = Val(payload).currentChunk
            /\ update.totalChunks = Val(payload).totalChunks
       /\ ~DefinesBoth(payload) =>
            /\ update.currentChunk = None
            /\ update.totalChunks = None
            /\ update.chunkSize = None

\* a payload with currentChunk and chunkSize but no totalChunks was reported,
\* and so was one that defines both chunk fields
C21_Witness ==
  /\ call.op = "sendProgressUpdate" /\ call.state = "returned"
  /\ IsSome(call.args.payload)
  /\ IsSome(Val(call.args.payload).currentChunk)
  /\ ~IsSome(Val(call.args.payload).totalChunks)
  /\ IsSome(Val(call.args.payload).chunkSize)
  /\ call.result.update.chunkSize = None
  /\ call.result.update.payload = call.args.payload

(***************************************************************************)
(* C22: when loading the font of a text node fails during a rewrite, the   *)
(* rewrite falls back to the default font and still sets the characters:   *)
(* the item of set_multiple_text_contents is reported as a success and the *)
(* node carries the new text.                                              *)
(***************************************************************************)
C22_FontFallback ==
  msg.command = "set_multiple_text_contents" =>
    \A k \in 1..Len(results) :
      results[k].nodeId \in unloadable \cap alive =>
        /\ results[k].success
        /\ chars[results[k].nodeId] # "old"

(***************************************************************************)
(* C23: for a text whose newline-delimited segment is mixed-font,          *)
(* buildLinearOrder re-splits the segment on spaces and records one run    *)
(* per sub-segment, starting at its first character: "AB\nCD EF" with "AB" *)
(* in X, "CD" in Y and "EF" in Z gives exactly the runs (X, newline),      *)
(* (Y, space), (Z, space), in ascending start order.                       *)
(***************************************************************************)
C23_SampleRuns ==
  /\ call.op = "buildLinearOrder"
  /\ call.state # "pending"
  /\ textNode = SampleText
  => /\ call.state = "returned"
     /\ call.result.fontTree =
          <<FontRun(0, NL, "X"), FontRun(3, SP, "Y"), FontRun(6, SP, "Z")>>

(***************************************************************************)
(* C24: getDelimiterPos(str, d, startIdx, endIdx) returns, for every       *)
(* startIdx, segments [a, b] that lie inside [startIdx, endIdx], are       *)
(* non-empty, ascending and pairwise non-overlapping; each closed segment  *)
(* ends at the index of an occurrence of d, the next segment starts right  *)
(* after that occurrence, and a non-empty remainder up to endIdx comes     *)
(* last.                                                                   *)
(***************************************************************************)
WellSegmented(str, d, startIdx, endIdx, indices) ==
  /\ \A k \in 1..Len(indices) :
       /\ startIdx <= indices[k][1]
       /\ indices[k][1] < indices[k][2]
       /\ indices[k][2] <= endIdx
       /\ \/ CharAt(str, indices[k][2]) = d
          \/ k = Len(indices) /\ indices[k][2] = endIdx
  /\ \A k \in 1..(Len(indices) - 1) :
       /\ CharAt(str, indices[k][2]) = d
       /\ indices[k + 1][1] = indices[k][2] + 1

C24_Segments ==
  call.op = "getDelimiterPos" /\ call.state = "returned" =>
    WellSegmented(textNode.characters, call.args.delimiter,
                  call.args.startIdx, call.args.endIdx, call.result.indices)

\* the same for the calls that start at index 0
C24_SegmentsFromZero ==
  call.op = "getDelimiterPos" /\ call.state = "returned" /\ call.args.startIdx = 0 =>
    WellSegmented(textNode.characters, call.args.delimiter,
                  0, call.args.endIdx, call.result.indices)

(***************************************************************************)
(* C25: in setCharactersWithSmartMatchFont, with the cursor prevPos at 0   *)
(* before the first run, the range assigned to a run ends at the index of  *)
(* the first occurrence of the run's delimiter at or after prevPos in the  *)
(* new text, or at the text length when there is none; the run's font is   *)
(* assigned to [prevPos, end) and prevPos becomes end + 1.                 *)
(***************************************************************************)
SmartCallDone ==
  call.op = "setCharactersWithSmartMatchFont" /\ call.state = "returned"

\* the cursor before the k-th assignment
CursorBefore(assigned, k) == IF k = 1 THEN 0 ELSE assigned[k - 1].endPos + 1

C25_RangeEnds ==
  SmartCallDone =>
    LET assigned == call.result.assigned
        rangeTree == call.result.rangeTree
        characters == textNode.characters
    IN \A k \in 1..Len(assigned) :
         LET prevPos == CursorBefore(assigned, k)
             found == IndexOf(characters, rangeTree[k].delimiter, prevPos)
         IN /\ assigned[k].prevPos = prevPos
            /\ assigned[k].font = rangeTree[k].font
            /\ assigned[k].endPos = (IF found # -1 THEN found ELSE Len(characters))
            /\ \A p \in prevPos..(assigned[k].endPos - 1) :
                 textNode.fonts[p + 1] = rangeTree[k].font

(***************************************************************************)
(* C26: the strict strategy records maximal same-font runs: every recorded *)
(* range [start, end) holds only characters of the recorded font, adjacent *)
(* recorded ranges have different fonts, and the recorded ranges cover     *)
(* every character index 0..length-1 exactly once.                         *)
(***************************************************************************)
StrictCallDone ==
  /\ call.op = "setCharactersWithStrictMatchFont"
  /\ call.state # "pending"
  /\ IsMixed(call.result.before)

C26_MaximalRuns ==
  StrictCallDone =>
    LET before == call.result.before
        tree == call.result.fontHashTree
    IN /\ \A k \in 1..Len(tree) :
            \A p \in tree[k].start..(tree[k].end - 1) : before.fonts[p + 1] = tree[k].font
       /\ \A k \in 1..(Len(tree) - 1) : tree[k].font # tree[k + 1].font
       /\ \A p \in 0..(Len(before.characters) - 1) :
            Cardinality({k \in 1..Len(tree) : tree[k].start <= p /\ p < tree[k].end}) = 1

(***************************************************************************)
(* C27: the prevail strategy tallies the font of every character of the    *)
(* node (indices 0..length-1), gives the whole node the font of the        *)
(* highest count, and on a tie the font met first from the left.           *)
(***************************************************************************)
PrevailCallDone ==
  /\ call.op = "setCharacters prevail"
  /\ call.state = "returned"
  /\ IsMixed(call.result.before)

CountOf(n, font) == Cardinality({p \in 1..Len(n.fonts) : n.fonts[p] = font})
FirstAt(n, font) == CHOOSE p \in 1..Len(n.fonts) :
                      n.fonts[p] = font /\ \A q \in 1..(p - 1) : n.fonts[q] # font

\* font wins the tally of all the characters of n
MostFrequent(n, font) ==
  /\ CountOf(n, font) > 0
  /\ \A p \in 1..Len(n.fonts) :
       \/ CountOf(n, n.fonts[p]) < CountOf(n, font)
       \/ CountOf(n, n.fonts[p]) = CountOf(n, font) /\ FirstAt(n, font) <= FirstAt(n, n.fonts[p])

C27_PrevailedFont ==
  PrevailCallDone =>
    /\ MostFrequent(call.result.before, call.result.font)
    /\ \A p \in 1..Len(textNode.fonts) : textNode.fonts[p] = call.result.font

(***************************************************************************)
(* C28: a batch command begins a cooperative delay after the after-chunk   *)
(* event of every chunk that is followed by another chunk and none after   *)
(* the last chunk: a run over T > 0 chunks has exactly T - 1 inter-chunk   *)
(* delays, each between the after-event of chunk k and the before-event of *)
(* chunk k + 1.                                                            *)
(***************************************************************************)
\* a chunked command is running over a finite number T > 0 of chunks
RunsOverChunks ==
  \/ BatchStarted /\ Len(chunks) > 0
  \/ ScanRan /\ scan.totalChunks[1] = "fin" /\ scan.totalChunks[2] > 0

ChunksPlanned == IF BatchStarted THEN Len(chunks) ELSE scan.totalChunks[2]

InPause == pc \in {"chunk_pause", "scan_pause"}

C28_DelaysBetweenChunks ==
  RunsOverChunks =>
    /\ delays = Cardinality({k \in 1..Len(events) :
                   /\ AfterChunkEvent(events[k])
                   /\ Val(events[k].currentChunk) < ChunksPlanned})
    /\ CountEvents(BeforeChunkEvent) <= delays + 1
    /\ InPause =>
         /\ AfterChunkEvent(events[Len(events)])
         /\ Val(events[Len(events)].currentChunk) = delays
         /\ CountEvents(BeforeChunkEvent) = delays
    /\ HasResult => delays = ChunksPlanned - 1

\* a batch over two chunks returned after one delay between them
C28_Witness ==
  /\ BatchStarted /\ HasResult
  /\ Len(chunks) = 2
  /\ delays = 1
  /\ CountEvents(AfterChunkEvent) = 2

(***************************************************************************)
(* C29: when another command removes nodes of the scanned subtree while a  *)
(* chunked scan_text_nodes is suspended, the scan still processes the      *)
(* remaining nodes, still emits exactly one terminal progress event, and   *)
(* still returns a result.                                                 *)
(***************************************************************************)
\* the outcome messages that answer the scan's own message
ScanOutcomes == SelectSeq(outbox, LAMBDA m : m.id = msg.id)

RemovedDuringScan == ChunkedScan /\ alive # Nodes

C29_RemovalTolerated ==
  (RemovedDuringScan /\ pc = "done") =>
    /\ Len(ScanOutcomes) = 1
    /\ ScanOutcomes[1].type = "command-result"
    /\ CountEvents(Terminal) = 1
    /\ scan.processedNodes = Len(scan.nodesToProcess)

(***************************************************************************)
(* C30: round trip of the smart strategy on a text whose every             *)
(* newline-delimited line is uniformly one font: setting the same          *)
(* characters again with setCharactersWithSmartMatchFont leaves every      *)
(* non-delimiter character in the font it had, also for texts with         *)
(* leading, trailing or consecutive newlines.                              *)
(***************************************************************************)
\* p and q (1-based) lie on the same line of n
SameLine(n, p, q) ==
  \A r \in (IF p <= q THEN p ELSE q)..(IF p <= q THEN q ELSE p) : n.characters[r] # NL

LinesUniform(n) ==
  \A p, q \in 1..Len(n.characters) : SameLine(n, p, q) => n.fonts[p] = n.fonts[q]

RoundTrip ==
  /\ call.op = "setCharactersWithSmartMatchFont"
  /\ call.state # "pending"
  /\ call.args.characters = call.result.before.characters
  /\ LinesUniform(call.result.before)

C30_SmartRoundTrip ==
  RoundTrip =>
    /\ call.state = "returned"
    /\ \A p \in 1..Len(textNode.characters) :
         textNode.characters[p] \notin {NL, SP} =>
           textNode.fonts[p] = call.result.before.fonts[p]

\* the same for the texts in which no line is empty
C30_RoundTripWithoutEmptyLines ==
  (/\ RoundTrip
   /\ call.result.before.characters # <<>>
   /\ call.result.before.characters[1] # NL
   /\ \A p \in 1..(Len(textNode.characters) - 1) :
        ~(textNode.characters[p] = NL /\ textNode.characters[p + 1] = NL)) =>
    /\ call.state = "returned"
    /\ \A p \in 1..Len(textNode.characters) :
         textNode.characters[p] # NL =>
           textNode.fonts[p] = call.result.before.fonts[p]

(***************************************************************************)
(* C31: on an unmodified tree with no processing failures,                 *)
(* scan_text_nodes returns the same textNodes sequence with useChunking    *)
(* true (for every chunk size > 0) and with useChunking false: both return *)
(* the visible text nodes of the subtree in pre-order, each with its id,   *)
(* its path and its depth.                                                 *)
(***************************************************************************)
RECURSIVE VisibleText(_, _, _)
RECURSIVE VisibleTextOfChildren(_, _, _)

\* the visible text nodes under n, in pre-order, with path and depth
VisibleText(n, parentPath, depth) ==
  IF n \in hidden THEN <<>>
  ELSE LET path == Append(parentPath, NodeLabel(n))
       IN (IF NodeType(n) = "TEXT"
           THEN <<[id |-> n, characters |-> chars[n], path |-> path, depth |-> depth]>>
           ELSE <<>>)
          \o VisibleTextOfChildren(NodeChildren(n), path, depth + 1)

VisibleTextOfChildren(children, path, depth) ==
  IF children = <<>> THEN <<>>
  ELSE VisibleText(Head(children), path, depth)
       \o VisibleTextOfChildren(Tail(children), path, depth)

ScanReturned ==
  /\ msg.command = "scan_text_nodes"
  /\ HasResult
  /\ msg.params.useChunking => ChunkSizeOf(msg) > 0

C31_SameTextNodes ==
  ScanReturned =>
    Val(outbox[1].result).textNodes = VisibleText(msg.params.nodeId, <<>>, 0)

\* an unchunked scan of the whole document returned both text nodes
C31_Witness ==
  /\ ScanReturned
  /\ ~msg.params.useChunking
  /\ msg.params.nodeId = "root"
  /\ hidden = {}
  /\ Len(Val(outbox[1].result).textNodes) = 2
  /\ Val(outbox[1].result).textNodes[2].depth = 2

\* a chunked scan of the same document with chunk size 2 returned them too
C31_ChunkedCase ==
  /\ ScanReturned
  /\ msg.params.useChunking
  /\ ChunkSizeOf(msg) = 2
  /\ msg.params.nodeId = "root"
  /\ hidden = {}
  /\ Len(Val(outbox[1].result).textNodes) = 2

(***************************************************************************)
(* C32: when the list of delete_multiple_nodes names the same node id more *)
(* than once, in one chunk or in different chunks, nodesDeleted is the     *)
(* number of distinct nodes removed: no node is counted twice, whatever    *)
(* the order in which the lookups and removals of a chunk complete.        *)
(***************************************************************************)
HasDuplicate(ids) == \E i, j \in 1..Len(ids) : i < j /\ ids[i] = ids[j]

RemovedIds(rs) == {rs[i].nodeId : i \in {j \in 1..Len(rs) : rs[j].success}}

C32_LaterChunkNotFound ==
  DeleteReturned =>
    \A i \in 1..Len(InputItems) :
      (i > CHUNK_SIZE /\ \E j \in 1..CHUNK_SIZE :
                           InputItems[j] = InputItems[i] /\ results[j].success)
        => /\ ~results[i].success
           /\ results[i].error = NotFoundError(InputItems[i])

(***************************************************************************)
(* C33: after set_multiple_text_contents returns, every text node has the  *)
(* fills it had before the command, for every interleaving and also when   *)
(* two entries of one chunk name the same node; only the characters of     *)
(* successfully rewritten nodes differ from the state before the command.  *)
(***************************************************************************)
TextReturned == msg.command = "set_multiple_text_contents" /\ HasResult

Rewritten(n) == \E i \in 1..Len(results) : results[i].success /\ results[i].nodeId = n

C33_FillsRestored ==
  TextReturned =>
    \A n \in TextNodes :
      /\ fills[n] = "original"
      /\ chars[n] # "old" => Rewritten(n)

\* the entries of the list that name node n
EntriesFor(n) ==
  {i \in 1..Len(InputItems) : ~InputItems[i].isNull /\ InputItems[i].nodeId = n}

\* a node named by one entry only, and rewritten, has its fills back
C33_RestoredWhenNamedOnce ==
  TextReturned =>
    \A n \in TextNodes :
      (Cardinality(EntriesFor(n)) = 1 /\ Rewritten(n)) =>
        fills[n] = "original" /\ chars[n] = "new"

(***************************************************************************)
(* C34: an item of set_multiple_text_contents reported with success false  *)
(* leaves its node as it was: the characters and the fills of the node     *)
(* after the command are those before it, also when setTextContent fails   *)
(* once the highlight fill is applied.                                     *)
(***************************************************************************)
C34_FailedItemUntouched ==
  TextReturned =>
    \A i \in 1..Len(results) :
      (~results[i].success /\ results[i].nodeId \in TextNodes
         /\ ~Rewritten(results[i].nodeId)) =>
        /\ chars[results[i].nodeId] = "old"
        /\ fills[results[i].nodeId] = "original"

\* the characters of a node whose items all failed are never changed
C34_FailedItemKeepsCharacters ==
  TextReturned =>
    \A i \in 1..Len(results) :
      (~results[i].success /\ results[i].nodeId \in TextNodes
         /\ ~Rewritten(results[i].nodeId)) =>
        chars[results[i].nodeId] = "old"

(***************************************************************************)
(* C35: a scan_text_nodes command that completes leaves the document as it *)
(* found it: once the "completed" event is sent every text node has the    *)
(* fills it had before the scan (the highlight is always put back), and no *)
(* node was added, removed or changed.                                     *)
(***************************************************************************)
ScanCompleted ==
  /\ msg.command = "scan_text_nodes"
  /\ \E k \in 1..Len(events) : events[k].status = "completed"

C35_ScanLeavesTree ==
  ScanCompleted =>
    /\ fills = [n \in TextNodes |-> "original"]
    /\ chars = [n \in TextNodes |-> "old"]
    /\ alive = Nodes
    /\ annotated = {}

\* a chunked scan of the whole document that highlighted both text nodes
C35_Witness ==
  /\ ScanCompleted
  /\ HasResult
  /\ msg.params.useChunking
  /\ msg.params.nodeId = "root"
  /\ Len(Val(outbox[1].result).textNodes) = 2

\* while a node is highlighted the scan is inside its delay, and the fills
\* it will put back are the original ones
C35_HighlightOnlyDuringDelay ==
  msg.command = "scan_text_nodes" =>
    \A n \in TextNodes :
      fills[n] = Highlight =>
        /\ pc \in {"scan_hl", "find_hl"}
        /\ Val(scan.cur).id = n
        /\ scan.saved = Some("original")

(***************************************************************************)
(* C36: export_node_as_image on a node id that resolves and whose export   *)
(* succeeds is answered with a "command-result" message for the inbound    *)
(* id; it is answered with "command-error" only when the node is missing   *)
(* or the export fails.                                                    *)
(***************************************************************************)
C36_ExportResolves ==
  [][pc = "exported" =>
       /\ Len(outbox') = 1
       /\ outbox'[1].type = "command-result"
       /\ outbox'[1].id = msg.id]_vars

\* every export_node_as_image command is answered with one command-error
\* that names the missing function
C36_ExportAlwaysFails ==
  (msg.command = "export_node_as_image" /\ msg.plugin = MainPlugin /\ Finished) =>
    /\ HasError
    /\ outbox[1].id = msg.id
    /\ outbox[1].error = NotDefined("sendCommandResult")

(***************************************************************************)
(* C37: the ranges [prevPos, endPos) that setCharactersWithSmartMatchFont  *)
(* passes to setRangeFontName are non-empty, strictly increasing, pairwise *)
(* disjoint and inside [0, length of the new text]; once the cursor has    *)
(* reached the end of the new text the runs left over assign nothing.      *)
(***************************************************************************)
C37_RangesInsideText ==
  SmartCallDone =>
    LET assigned == call.result.assigned
        length == Len(textNode.characters)
    IN /\ textNode.characters = call.args.characters
       /\ Len(assigned) <= Len(call.result.rangeTree)
       /\ \A k \in 1..Len(assigned) :
            /\ 0 <= assigned[k].prevPos
            /\ assigned[k].prevPos < assigned[k].endPos
            /\ assigned[k].endPos <= length
       /\ \A k \in 1..(Len(assigned) - 1) :
            /\ assigned[k].endPos < assigned[k + 1].prevPos
            /\ assigned[k].endPos < length

\* two ranges were assigned, the second up to the end of the new text
C37_Witness ==
  /\ SmartCallDone
  /\ Len(call.result.assigned) = 2
  /\ call.result.assigned[1].endPos + 1 = call.result.assigned[2].prevPos
  /\ call.result.assigned[2].endPos = Len(textNode.characters)

\* the first range reached the end of the new text and the second run of the
\* old text was left over
C37_LeftOverCase ==
  /\ SmartCallDone
  /\ Len(call.result.rangeTree) = 2
  /\ Len(call.result.assigned) = 1
  /\ call.result.assigned[1].endPos = Len(textNode.characters)

(***************************************************************************)
(* C38: in every progress event of every command                          *)
(* 0 <= processedItems <= totalItems and 0 <= progress <= 100; in the      *)
(* chunked commands the processedItems of the event sent after chunk k is  *)
(* the number of items in the chunks 1..k.                                 *)
(***************************************************************************)
\* the chunk size of the command that is running
ChunkSizeInUse == IF msg.command = "scan_text_nodes" THEN ChunkSizeOf(msg) ELSE CHUNK_SIZE

\* the number of items in the first k chunks of n items
ItemsInChunks(k, n) == Min(k * ChunkSizeInUse, n)

EventInBounds(e) ==
  /\ e.progress \in 0..100
  /\ e.processedItems \in 0..e.totalItems

C38_EventBounds ==
  /\ \A k \in 1..Len(events) : EventInBounds(events[k])
  /\ (BatchStarted \/ ScanRan) =>
       \A j \in 1..Len(ChunkEvents) :
         AfterChunkEvent(ChunkEvents[j]) =>
           ChunkEvents[j].processedItems =
             ItemsInChunks(Val(ChunkEvents[j].currentChunk), ChunkEvents[j].totalItems)

\* the same for the runs whose chunk size is positive
C38_PositiveChunkSize ==
  (ScanRan /\ ChunkSizeOf(msg) <= 0) \/ C38_EventBounds

(***************************************************************************)
(* C39: in the features plugin every 'generate-tiles' message yields       *)
(* exactly one 'tiles-created' reply and every 'convert-to-frame' message  *)
(* exactly one 'frame-converted' reply, each with the inbound id and with  *)
(* success false exactly when the handler threw; generate-tiles with rows  *)
(* r and columns c appends exactly r * c tiles to the new frame.           *)
(***************************************************************************)
FeatureServed == pc = "inbox" /\ pc' = "done"

\* one reply of the message's kind is posted, with the inbound id; it says
\* success false exactly when it carries the error of a throw
OneReply ==
  /\ Len(outbox') = Len(outbox) + 1
  /\ SubSeq(outbox', 1, Len(outbox)) = outbox
  /\ LET reply == outbox'[Len(outbox')]
     IN /\ reply.type = (IF msg.type = "generate-tiles" THEN "tiles-created"
                                                       ELSE "frame-converted")
        /\ reply.id = msg.id
        /\ reply.success = ~IsSome(reply.error)
        /\ (msg.type = "convert-to-frame" /\ selection = <<>>) =>
              /\ ~reply.success
              /\ reply.error = Some(<<"Please select an element first">>)
        /\ (msg.type = "convert-to-frame" /\ reply.success) =>
              /\ Len(frames') = Len(frames) + 1
              /\ frames'[Len(frames')].children = <<selection[1]>>
              /\ selection' = <<frames'[Len(frames')].id>>

\* the tiles of the frame the handler of a generate-tiles message created
NewTiles == frames'[Len(frames')].children

====
